---- MODULE Spec2Model ----
(***************************************************************************)
(* A model of zeptohttpc: the blocking send pipeline with its redirect     *)
(* state machine and deadline watcher (src/src/lib.rs, src/src/stream.rs,  *)
(* src/src/timeout.rs), and the header normalisation and request writer    *)
(* (src/src/lib.rs, src/src/body_writer.rs, src/src/chunked.rs).           *)
(*                                                                         *)
(* Spec     : one send call, broken at its blocking points (dial, TLS      *)
(*            handshake, request write, response-head read), interleaved   *)
(*            with the deadline watcher thread and a discrete clock.       *)
(* SpecWire : header normalisation and write_request as pure functions of  *)
(*            the caller's headers and body producer.                      *)
(* SpecCodec: the chunked encoder and decoder over a buffered stream       *)
(*            (src/src/chunked.rs).                                        *)
(* SpecParse: the incremental parse driver (src/src/parse.rs).             *)
(* SpecLayer: the chunked layer of the body reader                         *)
(*            (src/src/body_reader.rs).                                    *)
(* SpecDial : the staggered dual-stack dialer (src/src/happy_eyeballs.rs). *)
(* SpecDialLive: SpecDial with every thread scheduled.                     *)
(* SpecWatch: the deadline watcher thread and its channel, step by step    *)
(*            (src/src/timeout.rs).                                        *)
(***************************************************************************)
EXTENDS Integers, Sequences, FiniteSets, TLC

VARIABLES
    pc,               \* position of the send call
    uri,              \* parts.uri
    follow_redirects, \* opts.follow_redirects : Option<usize>
    timeout,          \* opts.timeout : Option<Duration>
    deadline,         \* opts.deadline : Option<Instant>, read by Stream::new
    start,            \* the local `start` of send_with_opts
    now,              \* the wall clock
    sock,             \* the TCP socket of the current hop
    watcher,          \* the watcher thread of the current hop's Timeout
    chan,             \* cancel signals queued in the watcher's channel
    headPart,         \* progress of parse() over the response head
    resp,             \* the local `resp` (head of the response just read)
    result,           \* what send returned
    conns,            \* connections opened by the dialer so far
    followed,         \* redirects followed so far
    nResp,            \* response heads read so far
    opts0,            \* the Options the caller passed
    tls,              \* whether TLS support is compiled in
    port,             \* the local `port` of the current hop
    firedAt,          \* the phase in which the watcher shut the socket down
    headers,          \* parts.headers
    headers0,         \* the headers the caller built the request with
    lines0,           \* the header lines the caller appended, in call order
    reqline,          \* parts.method and parts.version
    body,             \* the request's body producer
    flate2,           \* whether the flate2 feature is compiled in
    chunked,          \* the local `chunked` of send_with_opts
    wire,             \* what write_request put on the wire, one entry per hop
    wpc,              \* position of the normalise/write computation
    calls,            \* the buffers a producer writes through the chunked encoder
    api,              \* how it writes them: write_all or write
    data,             \* the bytes of the stream under a buffered reader
    plan,             \* how the stream is split across the reader's fills
    pad,              \* line bytes the stream carries ahead of data
    cr,               \* a ChunkedReader: its reader's position, rem and state
    sizes,            \* the chunk sizes the ChunkedReader has read so far
    out,              \* the bytes read out so far
    rres,             \* how read_to_end ended
    truncated,        \* whether the stream was cut short
    parser,           \* the parser handed to parse
    pres,             \* what parse returned
    te,               \* the Transfer-Encoding values of a response, in order
    layers,           \* the chunked decoders BodyReader::new has layered
    cpc,              \* position of the codec computation
    addrs,            \* the resolved addresses, in the resolver's order
    order,            \* the addresses sorted by priority (indices into addrs)
    launched,         \* connect attempts spawned so far
    att,              \* the state of each attempt, by launch position
    rxq,              \* results queued in the dialer's channel
    first_err,        \* the local `first_err` of connect (0: None)
    recvLog,          \* the results the main thread received, in order
    conn,             \* where the TcpStream of each attempt is
    dres,             \* what connect returned
    dpc,              \* position of connect
    thr,              \* position of the thread spawned by Timeout::start
    arm,              \* the arm of the thread's match on the time left
    tx,               \* whether the Timeout handle (the sender) is alive
    queue,            \* cancel signals queued in the channel
    wdeadline,        \* the deadline given to Timeout::start
    wclock,           \* the wall clock of the watcher
    shutdowns,        \* calls of stream.shutdown made so far
    cancelAt,         \* when the first cancel was sent or the handle dropped
    reads             \* the zero-byte reads made through Timeout::read

vars == <<pc, uri, follow_redirects, timeout, deadline, start, now, sock, watcher,
          chan, headPart, resp, result, conns, followed, nResp, opts0, tls, port,
          firedAt, headers, headers0, lines0, reqline, body, flate2, chunked, wire, wpc,
          calls, api, data, plan, pad, cr, sizes, out, rres, truncated, parser, pres, te, layers, cpc,
          addrs, order, launched, att, rxq, first_err, recvLog, conn, dres, dpc,
          thr, arm, tx, queue, wdeadline, wclock, shutdowns, cancelAt, reads>>

sendVars == <<pc, uri, follow_redirects, timeout, deadline, start, now, sock, watcher,
              chan, headPart, resp, result, conns, followed, nResp, opts0, tls,
              port, firedAt>>

wireVars == <<headers, headers0, lines0, reqline, body, flate2, chunked, wire, wpc>>

ioVars == <<calls, api, data, plan, pad, cr, sizes, out, rres, truncated, parser, pres, te, layers, cpc>>

dialVars == <<addrs, order, launched, att, rxq, first_err, recvLog, conn, dres, dpc>>

watchVars == <<thr, arm, tx, queue, wdeadline, wclock, shutdowns, cancelAt, reads>>

(***************************************************************************)
(* Bounds of the model.                                                    *)
(***************************************************************************)
MaxRedirects == 2   \* largest caller-chosen follow_redirects besides the default
MaxTimeout == 2     \* largest caller-chosen timeout, in clock ticks
MaxTime == 3        \* the clock stops here

(***************************************************************************)
(* Option<T>                                                               *)
(***************************************************************************)
None == [some |-> FALSE]
Some(x) == [some |-> TRUE, val |-> x]

(***************************************************************************)
(* Options                                                                 *)
(***************************************************************************)
DefaultRedirects == 5

DefaultOptions == [follow_redirects |-> Some(DefaultRedirects), timeout |-> None]

OptionsSet ==
    {DefaultOptions} \cup
    { [follow_redirects |-> f, timeout |-> t] :
        f \in {None} \cup {Some(n) : n \in 0..MaxRedirects},
        t \in {None} \cup {Some(d) : d \in 1..MaxTimeout} }

\* opts.deadline is read by Stream::new but set nowhere under src/: the
\* timeout is converted to an absolute instant once, at the start of send.
DeadlineOf(st, t) == IF t.some THEN Some(st + t.val) ELSE None

(***************************************************************************)
(* URIs and responses                                                      *)
(***************************************************************************)
Hosts == {"a", "b"}

\* scheme, authority and path (path and query) are "none" when absent;
\* port is the authority's explicit port.  http::Uri never holds a scheme
\* without an authority and a path.
InitialUris ==
    { [scheme |-> "none", authority |-> "none", port |-> None, path |-> "/p"],
      [scheme |-> "none", authority |-> "a", port |-> None, path |-> "none"],
      [scheme |-> "ftp", authority |-> "a", port |-> None, path |-> "/p"],
      [scheme |-> "ftp", authority |-> "a", port |-> Some(8080), path |-> "/p"],
      [scheme |-> "http", authority |-> "a", port |-> None, path |-> "/p"],
      [scheme |-> "https", authority |-> "a", port |-> None, path |-> "/p"] }

\* Values of a Location header: absent, not parseable as a URI, relative
\* (path and query only), authority only, or absolute.
Locations ==
    { [kind |-> "none"], [kind |-> "bad"], [kind |-> "rel"], [kind |-> "auth"] } \cup
    { [kind |-> "abs", scheme |-> s, authority |-> h, port |-> None] :
        s \in {"http", "https"}, h \in Hosts } \cup
    { [kind |-> "abs", scheme |-> "ftp", authority |-> "b", port |-> None],
      [kind |-> "abs", scheme |-> "http", authority |-> "b", port |-> Some(8080)] }

\* Uri::into_parts of a parsed Location value.
LocationParts(l) ==
    IF l.kind = "abs"
    THEN [scheme |-> l.scheme, authority |-> l.authority, port |-> l.port, path |-> "/q"]
    ELSE IF l.kind = "auth"
    THEN [scheme |-> "none", authority |-> "b", port |-> None, path |-> "none"]
    ELSE [scheme |-> "none", authority |-> "none", port |-> None, path |-> "/q"]

TriggerStatuses == {301, 302, 303, 307, 308}

OtherStatuses == {200, 300, 304, 305}

\* Response heads the peer may send; id names the response (and its body).
Responses(id) ==
    { [status |-> s, location |-> l, id |-> id] : s \in TriggerStatuses, l \in Locations }
    \cup
    { [status |-> s, location |-> l, id |-> id] :
        s \in OtherStatuses,
        l \in { [kind |-> "none"],
                 [kind |-> "abs", scheme |-> "http", authority |-> "b", port |-> None] } }

NoResp == [status |-> 0, location |-> [kind |-> "none"], id |-> 0]

NoResult == [tag |-> "none"]
Ok(r) == [tag |-> "Ok", resp |-> r]
Err(e) == [tag |-> "Err", err |-> e, kind |-> "none"]
IoErr(k) == [tag |-> "Err", err |-> "Io", kind |-> k]


(***************************************************************************)
(* send_with_opts: state at the top of the loop, after normalisation       *)
(***************************************************************************)
InitSend ==
    /\ pc = "loop"
    /\ uri \in InitialUris
    /\ opts0 \in OptionsSet
    /\ tls \in BOOLEAN
    /\ port = None
    /\ follow_redirects = opts0.follow_redirects
    /\ timeout = opts0.timeout
    /\ now = 0
    /\ start = 0
    /\ deadline = DeadlineOf(0, opts0.timeout)
    /\ sock = "none"
    /\ watcher = "none"
    /\ chan = 0
    /\ headPart = "none"
    /\ resp = NoResp
    /\ result = NoResult
    /\ conns = 0
    /\ followed = 0
    /\ nResp = 0
    /\ firedAt = "none"

\* Mutant: the scheme's default port wins over the explicit one.
PortOf_SchemeFirst(u, t) ==
    IF u.scheme = "http" THEN Some(80)
    ELSE IF t /\ u.scheme = "https" THEN Some(443)
    ELSE u.port

\* The port of one hop; None where the match falls through.
PortOf(u, t) ==
    IF u.port.some THEN u.port
    ELSE IF u.scheme = "http" THEN Some(80)
    ELSE IF t /\ u.scheme = "https" THEN Some(443)
    ELSE None

\* Mutant: the stream of the hop is kept when its scope ends.
DropStream_KeepOpen == UNCHANGED <<sock, watcher, chan>>

\* Dropping the Stream of the current hop: the socket is closed and the
\* Timeout handle (the channel's sender) is dropped with it.  The watcher
\* thread of a dropped stream only ever touches its own clone of that
\* socket, so it is not followed any further.
DropStream ==
    /\ sock' = IF sock = "none" THEN "none" ELSE "closed"
    /\ watcher' = "none"
    /\ chan' = 0

\* send returns an error: every local of the call is dropped.
ReturnErr(e) ==
    /\ pc' = "done"
    /\ result' = e
    /\ DropStream

\* Scheme, authority and port checks at the top of the loop.  (The Host
\* header this step sets is followed in WriteHop.)
LoopTop ==
    /\ pc = "loop"
    /\ IF uri.scheme = "none" THEN ReturnErr(Err("MissingScheme"))
       ELSE IF uri.authority = "none" THEN ReturnErr(Err("MissingAuthority"))
       ELSE IF ~PortOf(uri, tls).some THEN ReturnErr(Err("UnsupportedProtocol"))
       ELSE /\ pc' = "dial"
            /\ UNCHANGED <<result, sock, watcher, chan>>
    /\ port' = PortOf(uri, tls)
    /\ UNCHANGED <<uri, follow_redirects, timeout, deadline, start, now, headPart,
                   resp, conns, followed, nResp, opts0, tls, firedAt>>

\* Mutant: for https the watcher is started only after the handshake.
DialOk_WatcherAfterHandshake ==
    /\ pc = "dial"
    /\ conns' = conns + 1
    /\ sock' = "open"
    /\ chan' = 0
    /\ watcher' = IF deadline.some /\ ~(tls /\ uri.scheme = "https") THEN "spawned"
                  ELSE "none"
    /\ pc' = IF tls /\ uri.scheme = "https" THEN "tls" ELSE "write"
    /\ UNCHANGED <<uri, follow_redirects, timeout, deadline, start, now, headPart,
                   resp, result, followed, nResp, opts0, tls, port, firedAt>>

\* Stream::new: the dialer returned a socket; with a deadline the watcher is
\* spawned on it at once, before any TLS handshake.
DialOk ==
    /\ pc = "dial"
    /\ conns' = conns + 1
    /\ sock' = "open"
    /\ chan' = 0
    /\ watcher' = IF deadline.some THEN "spawned" ELSE "none"
    /\ pc' = IF tls /\ uri.scheme = "https" THEN "tls" ELSE "write"
    /\ UNCHANGED <<uri, follow_redirects, timeout, deadline, start, now, headPart,
                   resp, result, followed, nResp, opts0, tls, port, firedAt>>

\* Stream::new: the dialer failed (resolution, refusal, connect_timeout).
DialFail ==
    /\ pc = "dial"
    /\ \E k \in {"ConnectionRefused", "TimedOut"} : ReturnErr(IoErr(k))
    /\ UNCHANGED <<uri, follow_redirects, timeout, deadline, start, now, headPart,
                   resp, conns, followed, nResp, opts0, tls, port, firedAt>>

\* The TLS handshake completes; it needs a socket that still carries data.
TlsOk ==
    /\ pc = "tls"
    /\ sock = "open"
    /\ pc' = "write"
    /\ UNCHANGED <<uri, follow_redirects, timeout, deadline, start, now, sock, watcher,
                   chan, headPart, resp, result, conns, followed, nResp, opts0, tls, port, firedAt>>

\* The TLS handshake fails: the peer misbehaves, or the socket was shut down
\* under it.  The handshake reads the socket directly, not through
\* Timeout::read.
TlsFail ==
    /\ pc = "tls"
    /\ ReturnErr(Err("Tls"))
    /\ UNCHANGED <<uri, follow_redirects, timeout, deadline, start, now, headPart,
                   resp, conns, followed, nResp, opts0, tls, port, firedAt>>

\* write_request succeeded: head and body were written and flushed.
WriteOk ==
    /\ pc = "write"
    /\ sock = "open"
    /\ pc' = "read"
    /\ UNCHANGED <<uri, follow_redirects, timeout, deadline, start, now, sock, watcher,
                   chan, headPart, resp, result, conns, followed, nResp, opts0, tls, port, firedAt>>

\* The error kind of a write: Stream::write passes the socket's own error
\* through.  A socket that was shut down reports a broken pipe, a live one
\* fails only if the peer resets the connection.
WriteErrKind(s) == IF s = "shutdown" THEN "BrokenPipe" ELSE "ConnectionReset"

\* Mutant: a failed write is answered with a new connection to the same hop.
WriteFail_Reconnect ==
    /\ pc = "write"
    /\ pc' = "dial"
    /\ DropStream
    /\ UNCHANGED <<uri, follow_redirects, timeout, deadline, start, now, headPart,
                   resp, result, conns, followed, nResp, opts0, tls, port, firedAt>>

WriteFail ==
    /\ pc = "write"
    /\ ReturnErr(IoErr(WriteErrKind(sock)))
    /\ UNCHANGED <<uri, follow_redirects, timeout, deadline, start, now, headPart,
                   resp, conns, followed, nResp, opts0, tls, port, firedAt>>

(***************************************************************************)
(* Timeout::read and the response-head read                                *)
(***************************************************************************)
\* The watcher still holds the receiving end of the cancel channel.
RxAlive == watcher \in {"spawned", "waiting"}

\* Timeout::read when the wrapped read returned zero into a non-empty
\* buffer: the cancel signal is sent, and the read is a timeout only if
\* sending failed.
TimeoutReadZero(rxAlive) == IF rxAlive THEN "Ok0" ELSE "TimedOut"

\* Stream::read returning zero: only the WithTimeout variants go through
\* Timeout::read.
StreamReadZero(withTimeout, rxAlive) ==
    IF withTimeout THEN TimeoutReadZero(rxAlive) ELSE "Ok0"

\* Part of the head arrived: parse finds it Partial and parse_buffered
\* keeps it in its accumulator.
ReadPartial ==
    /\ pc = "read"
    /\ sock = "open"
    /\ headPart = "none"
    /\ headPart' = "partial"
    /\ UNCHANGED <<pc, uri, follow_redirects, timeout, deadline, start, now, sock,
                   watcher, chan, resp, result, conns, followed, nResp, opts0, tls, port, firedAt>>

\* read_response: the head is complete, the body reader is built over the
\* still-live stream.
ReadHead ==
    /\ pc = "read"
    /\ sock = "open"
    /\ headPart # "eof"
    /\ \E r \in Responses(nResp + 1) : resp' = r
    /\ nResp' = nResp + 1
    /\ pc' = "redirect"
    /\ UNCHANGED <<uri, follow_redirects, timeout, deadline, start, now, sock, watcher,
                   chan, headPart, result, conns, followed, opts0, tls, port, firedAt>>

\* read_response fails on what the peer sent: the head does not parse, it
\* carries no status, or the body reader cannot be built from its headers.
ReadBad ==
    /\ pc = "read"
    /\ sock = "open"
    /\ headPart # "eof"
    /\ \E e \in {"Httparse", "MissingStatus", "HeaderToStr"} : ReturnErr(Err(e))
    /\ UNCHANGED <<uri, follow_redirects, timeout, deadline, start, now, headPart,
                   resp, conns, followed, nResp, opts0, tls, port, firedAt>>

\* A read of the socket returns zero bytes: the peer closed, or the socket
\* was shut down.  parse's first fill sees an empty buffer as Partial and
\* parse_buffered reads again; an empty fill in parse_buffered is
\* UnexpectedEof.
ReadZero ==
    /\ pc = "read"
    /\ LET r == StreamReadZero(deadline.some, RxAlive) IN
         IF r = "TimedOut" THEN
             /\ ReturnErr(IoErr("TimedOut"))
             /\ UNCHANGED headPart
         ELSE IF headPart = "none" THEN
             /\ headPart' = "eof"
             /\ chan' = IF deadline.some THEN chan + 1 ELSE chan
             /\ UNCHANGED <<pc, result, sock, watcher>>
         ELSE
             /\ ReturnErr(IoErr("UnexpectedEof"))
             /\ UNCHANGED headPart
    /\ UNCHANGED <<uri, follow_redirects, timeout, deadline, start, now, resp, conns,
                   followed, nResp, opts0, tls, port, firedAt>>

(***************************************************************************)
(* The redirect state machine                                              *)
(***************************************************************************)
HrErr(e, fr, to) == [out |-> "Err", err |-> e, fr |-> fr, to |-> to]

\* The tail of handle_redirects once the counter and the timeout allowed
\* the redirect: the Location header is read and parsed.
HrLocation(r, fr1, to1) ==
    IF r.location.kind = "none" THEN HrErr("MissingLocation", fr1, to1)
    ELSE IF r.location.kind = "bad" THEN HrErr("HttpInvalidUri", fr1, to1)
    ELSE [out |-> "Some", err |-> "none", fr |-> fr1, to |-> to1]

\* Mutant: a hop that took exactly the remaining timeout is still followed.
HrCounted_ElapsedMayEqual(r, fr, to, elapsed) ==
    IF to.some /\ to.val < elapsed
    THEN HrErr("TooManyRedirects", Some(fr.val - 1), to)
    ELSE HrLocation(r, Some(fr.val - 1),
                    IF to.some THEN Some(to.val - elapsed) ELSE to)

\* handle_redirects with the timeout already checked.
HrCounted(r, fr, to, elapsed) ==
    IF to.some /\ to.val <= elapsed
    THEN HrErr("TooManyRedirects", Some(fr.val - 1), to)
    ELSE HrLocation(r, Some(fr.val - 1),
                    IF to.some THEN Some(to.val - elapsed) ELSE to)

\* Mutant: every 3xx status is taken for a redirect.
HandleRedirects_Any3xx(r, fr, to, elapsed) ==
    IF fr.some /\ r.status >= 300 /\ r.status <= 399 THEN
        IF fr.val = 0 THEN HrErr("TooManyRedirects", fr, to)
        ELSE HrCounted(r, fr, to, elapsed)
    ELSE [out |-> "None", err |-> "none", fr |-> fr, to |-> to]

\* Mutant: the exhausted counter is tested before the status is looked at.
HandleRedirects_CounterFirst(r, fr, to, elapsed) ==
    IF fr.some /\ fr.val = 0 THEN HrErr("TooManyRedirects", fr, to)
    ELSE IF fr.some /\ r.status \in TriggerStatuses THEN HrCounted(r, fr, to, elapsed)
    ELSE [out |-> "None", err |-> "none", fr |-> fr, to |-> to]

\* Mutant: the counter saturates at zero instead of failing.
HandleRedirects_Saturating(r, fr, to, elapsed) ==
    IF fr.some /\ r.status \in TriggerStatuses THEN
        IF fr.val = 0 THEN HrCounted(r, Some(1), to, elapsed)
        ELSE HrCounted(r, fr, to, elapsed)
    ELSE [out |-> "None", err |-> "none", fr |-> fr, to |-> to]

\* Mutant: follow_redirects = None is taken for the default depth.
HandleRedirects_NoneIsDefault(r, fr, to, elapsed) ==
    LET fr0 == IF fr.some THEN fr ELSE Some(DefaultRedirects) IN
    IF r.status \in TriggerStatuses THEN
        IF fr0.val = 0 THEN HrErr("TooManyRedirects", fr0, to)
        ELSE HrCounted(r, fr0, to, elapsed)
    ELSE [out |-> "None", err |-> "none", fr |-> fr, to |-> to]

\* Mutant: a redirect without Location is returned as the response.
HandleRedirects_LocationOptional(r, fr, to, elapsed) ==
    IF fr.some /\ r.status \in TriggerStatuses /\ r.location.kind # "none" THEN
        IF fr.val = 0 THEN HrErr("TooManyRedirects", fr, to)
        ELSE HrCounted(r, fr, to, elapsed)
    ELSE [out |-> "None", err |-> "none", fr |-> fr, to |-> to]

\* handle_redirects(resp, opts, elapsed): the outcome and the options it
\* leaves behind.
HandleRedirects(r, fr, to, elapsed) ==
    IF fr.some /\ r.status \in TriggerStatuses THEN
        IF fr.val = 0 THEN HrErr("TooManyRedirects", fr, to)
        ELSE HrCounted(r, fr, to, elapsed)
    ELSE [out |-> "None", err |-> "none", fr |-> fr, to |-> to]

\* Option::or on a part of a URI.
PartOr(a, b) == IF a # "none" THEN a ELSE b

\* Mutant: the previous URI's scheme and authority are kept where present.
MergeUri_KeepPrevious(u, l) ==
    [scheme |-> PartOr(u.scheme, l.scheme),
     authority |-> PartOr(u.authority, l.authority),
     port |-> IF u.authority # "none" THEN u.port ELSE l.port,
     path |-> l.path]

\* The parts of the next hop's URI: scheme and authority (with its port) of
\* the Location where present, else those of the previous URI; path and
\* query of the Location.
MergeUri(u, l) ==
    [scheme |-> PartOr(l.scheme, u.scheme),
     authority |-> PartOr(l.authority, u.authority),
     port |-> IF l.authority # "none" THEN l.port ELSE u.port,
     path |-> l.path]

\* Uri::from_parts: "none" if the parts make a URI, else the missing part.
FromPartsErr(p) ==
    IF p.scheme # "none" THEN
        IF p.authority = "none" THEN "AuthorityMissing"
        ELSE IF p.path = "none" THEN "PathAndQueryMissing"
        ELSE "none"
    ELSE IF p.authority # "none" /\ p.path # "none" THEN "SchemeMissing"
    ELSE "none"

\* The tail of the loop body: elapsed time, handle_redirects, and either
\* `continue` (resp and its stream are dropped) or `return Ok(resp)`.
Redirect ==
    /\ pc = "redirect"
    /\ LET h == HandleRedirects(resp, follow_redirects, timeout, now - start) IN
        /\ follow_redirects' = h.fr
        /\ timeout' = h.to
        /\ start' = now
        /\ IF h.out = "Err" THEN
               /\ ReturnErr(Err(h.err))
               /\ UNCHANGED <<uri, resp, followed, firedAt, headPart, port>>
           ELSE IF h.out = "Some"
                   /\ FromPartsErr(MergeUri(uri, LocationParts(resp.location))) # "none" THEN
               /\ ReturnErr(Err("HttpInvalidUriParts"))
               /\ UNCHANGED <<uri, resp, followed, firedAt, headPart, port>>
           ELSE IF h.out = "Some" THEN
               /\ uri' = MergeUri(uri, LocationParts(resp.location))
               /\ followed' = followed + 1
               /\ resp' = NoResp
               /\ firedAt' = "none"
               /\ headPart' = "none"
               /\ port' = None
               /\ pc' = "loop"
               /\ DropStream
               /\ UNCHANGED result
           ELSE
               /\ pc' = "done"
               /\ result' = Ok(resp)
               /\ UNCHANGED <<uri, resp, followed, firedAt, headPart, sock, watcher, chan,
                             port>>
    /\ UNCHANGED <<deadline, now, conns, nResp, opts0, tls>>

(***************************************************************************)
(* The watcher thread of Timeout::start                                    *)
(***************************************************************************)
\* The thread starts: with the deadline not yet past it blocks in
\* recv_timeout; with the deadline past it polls try_recv once and decides.
WatcherStart ==
    /\ watcher = "spawned"
    /\ IF deadline.val >= now THEN
           /\ watcher' = "waiting"
           /\ UNCHANGED chan
       ELSE IF chan > 0 THEN
           /\ watcher' = "exited"
           /\ chan' = chan - 1
       ELSE
           /\ watcher' = "dropped"
           /\ UNCHANGED chan
    /\ UNCHANGED <<pc, uri, follow_redirects, timeout, deadline, start, now, sock,
                   headPart, resp, result, conns, followed, nResp, opts0, tls, port, firedAt>>

\* recv_timeout returns a cancel signal: the thread exits without shutdown.
WatcherRecv ==
    /\ watcher = "waiting"
    /\ chan > 0
    /\ watcher' = "exited"
    /\ chan' = chan - 1
    /\ UNCHANGED <<pc, uri, follow_redirects, timeout, deadline, start, now, sock,
                   headPart, resp, result, conns, followed, nResp, opts0, tls, port, firedAt>>

\* recv_timeout times out: the receiver is dropped first.
WatcherTimeout ==
    /\ watcher = "waiting"
    /\ chan = 0
    /\ now >= deadline.val
    /\ watcher' = "dropped"
    /\ UNCHANGED <<pc, uri, follow_redirects, timeout, deadline, start, now, sock, chan,
                   headPart, resp, result, conns, followed, nResp, opts0, tls, port, firedAt>>

\* stream.shutdown(Shutdown::Both) on the watcher's clone of the socket.
WatcherShutdown ==
    /\ watcher = "dropped"
    /\ watcher' = "fired"
    /\ sock' = IF sock = "open" THEN "shutdown" ELSE sock
    /\ firedAt' = IF sock = "open" /\ firedAt = "none" THEN pc ELSE firedAt
    /\ UNCHANGED <<pc, uri, follow_redirects, timeout, deadline, start, now, chan,
                   headPart, resp, result, conns, followed, nResp, opts0, tls, port>>

\* The wall clock advances.
Tick ==
    /\ now < MaxTime
    /\ now' = now + 1
    /\ UNCHANGED <<pc, uri, follow_redirects, timeout, deadline, start, sock, watcher,
                   chan, headPart, resp, result, conns, followed, nResp, opts0, tls, port, firedAt>>

(***************************************************************************)
(* The specification of one send call                                      *)
(***************************************************************************)
\* The dialer before connect is called.
NoDial == [tag |-> "none", who |-> 0]

DialIdle ==
    /\ dpc = "off"
    /\ addrs = <<>>
    /\ order = <<>>
    /\ launched = 0
    /\ att = <<>>
    /\ rxq = <<>>
    /\ first_err = 0
    /\ recvLog = <<>>
    /\ conn = <<>>
    /\ dres = NoDial

\* The watcher before Timeout::start is called.
WatchIdle ==
    /\ thr = "off"
    /\ arm = "none"
    /\ tx = FALSE
    /\ queue = 0
    /\ wdeadline = 0
    /\ wclock = 0
    /\ shutdowns = 0
    /\ cancelAt = None
    /\ reads = <<>>

\* A fresh ChunkedReader, and the idle values of the codec state.
NewReader == [pos |-> 0, rem |-> 0, state |-> "Init"]

NoParser == [kind |-> "none", need |-> 0, take |-> 0]

NoParse == [tag |-> "none", val |-> 0, err |-> "none", acc |-> 0]

NoLayers == [tag |-> "none", n |-> 0]

IoIdle ==
    /\ cpc = "off"
    /\ calls = <<>>
    /\ api = "write_all"
    /\ data = <<>>
    /\ plan = [first |-> 1, step |-> 0]
    /\ pad = 0
    /\ cr = NewReader
    /\ sizes = <<>>
    /\ out = <<>>
    /\ rres = "none"
    /\ truncated = FALSE
    /\ parser = NoParser
    /\ pres = NoParse
    /\ te = <<>>
    /\ layers = NoLayers

WireIdle ==
    /\ headers = <<>>
    /\ headers0 = <<>>
    /\ lines0 = <<>>
    /\ reqline = [method |-> "GET", version |-> "HTTP/1.1"]
    /\ body = [type |-> "Empty", writes |-> <<>>, pos |-> 0]
    /\ flate2 = FALSE
    /\ chunked = FALSE
    /\ wire = <<>>
    /\ wpc = "off"

Init == InitSend /\ WireIdle /\ IoIdle /\ DialIdle /\ WatchIdle

Next ==
    \/ LoopTop /\ UNCHANGED <<wireVars, ioVars, dialVars, watchVars>>
    \/ DialOk /\ UNCHANGED <<wireVars, ioVars, dialVars, watchVars>>
    \/ DialFail /\ UNCHANGED <<wireVars, ioVars, dialVars, watchVars>>
    \/ TlsOk /\ UNCHANGED <<wireVars, ioVars, dialVars, watchVars>>
    \/ TlsFail /\ UNCHANGED <<wireVars, ioVars, dialVars, watchVars>>
    \/ WriteOk /\ UNCHANGED <<wireVars, ioVars, dialVars, watchVars>>
    \/ WriteFail /\ UNCHANGED <<wireVars, ioVars, dialVars, watchVars>>
    \/ ReadPartial /\ UNCHANGED <<wireVars, ioVars, dialVars, watchVars>>
    \/ ReadHead /\ UNCHANGED <<wireVars, ioVars, dialVars, watchVars>>
    \/ ReadBad /\ UNCHANGED <<wireVars, ioVars, dialVars, watchVars>>
    \/ ReadZero /\ UNCHANGED <<wireVars, ioVars, dialVars, watchVars>>
    \/ Redirect /\ UNCHANGED <<wireVars, ioVars, dialVars, watchVars>>
    \/ WatcherStart /\ UNCHANGED <<wireVars, ioVars, dialVars, watchVars>>
    \/ WatcherRecv /\ UNCHANGED <<wireVars, ioVars, dialVars, watchVars>>
    \/ WatcherTimeout /\ UNCHANGED <<wireVars, ioVars, dialVars, watchVars>>
    \/ WatcherShutdown /\ UNCHANGED <<wireVars, ioVars, dialVars, watchVars>>
    \/ Tick /\ UNCHANGED <<wireVars, ioVars, dialVars, watchVars>>

Spec == Init /\ [][Next]_vars

(***************************************************************************)
(* The header map (http::HeaderMap as send_with_opts uses it)              *)
(*                                                                         *)
(* A map is a sequence of entries in insertion order of their names; an    *)
(* entry holds the values of one name in insertion order.  A value is the  *)
(* sequence of its comma-separated tokens.                                 *)
(***************************************************************************)
HmIndex(h, name) ==
    IF \E i \in 1..Len(h) : h[i].name = name
    THEN CHOOSE i \in 1..Len(h) : h[i].name = name
    ELSE 0

HmContains(h, name) == HmIndex(h, name) # 0

\* HeaderMap::append: one more value for the name.
HmAppend(h, name, v) ==
    IF HmContains(h, name)
    THEN [h EXCEPT ![HmIndex(h, name)].values = Append(@, v)]
    ELSE Append(h, [name |-> name, values |-> <<v>>])

\* Mutant: insert removes the name and puts it in again at the end.
HmInsert_MoveToEnd(h, name, v) ==
    Append(SelectSeq(h, LAMBDA e : e.name # name), [name |-> name, values |-> <<v>>])

\* HeaderMap::insert: the name keeps its place and holds this value alone.
HmInsert(h, name, v) ==
    IF HmContains(h, name)
    THEN [h EXCEPT ![HmIndex(h, name)].values = <<v>>]
    ELSE Append(h, [name |-> name, values |-> <<v>>])

\* entry(name).or_insert_with(..): only a vacant entry is filled.
HmOrInsert(h, name, v) ==
    IF HmContains(h, name) THEN h ELSE Append(h, [name |-> name, values |-> <<v>>])

\* append_enconding: a vacant entry gets the encoding; an occupied entry has
\* the encoding pushed after a comma onto its first value.
AppendEncoding(h, encoding) ==
    IF HmContains(h, "transfer-encoding")
    THEN [h EXCEPT ![HmIndex(h, "transfer-encoding")].values[1] = Append(@, encoding)]
    ELSE Append(h, [name |-> "transfer-encoding", values |-> <<<<encoding>>>>])

\* Iteration over the map: every value of every name, as header lines.
RECURSIVE EntryLines(_, _)
EntryLines(name, values) ==
    IF values = <<>> THEN <<>>
    ELSE <<[name |-> name, value |-> Head(values)]>> \o EntryLines(name, Tail(values))

RECURSIVE HeaderLines(_)
HeaderLines(h) ==
    IF h = <<>> THEN <<>>
    ELSE EntryLines(Head(h).name, Head(h).values) \o HeaderLines(Tail(h))

(***************************************************************************)
(* Body producers (body_writer.rs) and the chunked encoder (chunked.rs)    *)
(***************************************************************************)
MaxCallerHeaders == 2   \* header lines the caller put on the request
MaxWrites == 2          \* write calls a streaming producer makes
MaxHops == 2            \* hops written on the wire

\* Buffers a producer hands to its writer.
Buffers == { <<>>, <<"x">>, <<"x", "y">> }

RECURSIVE SeqsUpTo(_, _)
SeqsUpTo(S, n) ==
    IF n = 0 THEN { <<>> }
    ELSE LET shorter == SeqsUpTo(S, n - 1)
         IN  shorter \cup { Append(q, x) : q \in { t \in shorter : Len(t) = n - 1 }, x \in S }

\* EmptyBody, MemBody over a byte slice, IoBody over a seekable reader (at
\* whatever position the caller left it), and a streaming producer (the
\* kind JsonBody and CompressedBody report) that makes the given write
\* calls.
Bodies ==
    { [type |-> "Empty", writes |-> <<>>, pos |-> 0] }
    \cup { [type |-> "Mem", writes |-> <<b>>, pos |-> 0] : b \in Buffers }
    \cup UNION { { [type |-> "Io", writes |-> <<b>>, pos |-> p] : p \in 0..Len(b) } :
                  b \in Buffers }
    \cup { [type |-> "Stream", writes |-> w, pos |-> 0] : w \in SeqsUpTo(Buffers, MaxWrites) }

RECURSIVE Concat(_)
Concat(bufs) == IF bufs = <<>> THEN <<>> ELSE Head(bufs) \o Concat(Tail(bufs))

\* BodyWriter::kind.
BodyKind(b) ==
    IF b.type = "Empty" THEN [kind |-> "Empty", len |-> 0]
    ELSE IF b.type \in {"Mem", "Io"} THEN [kind |-> "KnownLength", len |-> Len(Concat(b.writes))]
    ELSE [kind |-> "Chunked", len |-> 0]

\* The producer after kind(): IoBody has sought to its reader's end.
BodyAfterKind(b) ==
    IF b.type = "Io" THEN [b EXCEPT !.pos = Len(Concat(b.writes))] ELSE b

\* io::copy from the reader's position to its end.
IoCopy(b, from) == SubSeq(Concat(b.writes), from + 1, Len(Concat(b.writes)))

\* The write calls BodyWriter::write makes on its writer: IoBody seeks to
\* the start first; write_all and io::copy never pass an empty buffer on.
BodyWrites(b) ==
    IF b.type = "Stream" THEN b.writes
    ELSE IF b.type = "Io" THEN SelectSeq(<<IoCopy(b, 0)>>, LAMBDA buf : buf # <<>>)
    ELSE SelectSeq(b.writes, LAMBDA buf : buf # <<>>)

\* The producer after write(): IoBody's reader stands at its end.
BodyAfterWrite(b) ==
    IF b.type = "Io" THEN [b EXCEPT !.pos = Len(Concat(b.writes))] ELSE b

CRLF == <<"CR", "LF">>

HexDigits == <<"0", "1", "2", "3", "4", "5", "6", "7", "8", "9", "a", "b", "c", "d", "e", "f">>

\* The {:x} formatting of a length.
RECURSIVE Hex(_)
Hex(n) == IF n < 16 THEN <<HexDigits[n + 1]>> ELSE Hex(n \div 16) \o <<HexDigits[(n % 16) + 1]>>

Digits == <<"0", "1", "2", "3", "4", "5", "6", "7", "8", "9">>

RECURSIVE Dec(_)
Dec(n) == IF n < 10 THEN <<Digits[n + 1]>> ELSE Dec(n \div 10) \o <<Digits[(n % 10) + 1]>>

\* Mutant: the chunk size is written in decimal.
ChunkedWrite_Decimal(buf) == Dec(Len(buf)) \o CRLF \o buf \o CRLF

\* ChunkedWriter::write of one buffer.
ChunkedWrite(buf) == Hex(Len(buf)) \o CRLF \o buf \o CRLF

\* ChunkedWriter::close.
ChunkedClose == <<"0">> \o CRLF \o CRLF

RECURSIVE ChunkedWrites(_)
ChunkedWrites(bufs) ==
    IF bufs = <<>> THEN <<>> ELSE ChunkedWrite(Head(bufs)) \o ChunkedWrites(Tail(bufs))

(***************************************************************************)
(* Header normalisation and write_request                                  *)
(***************************************************************************)
DefUserAgent == "zeptohttpc"

\* The decimal text of a length (HeaderValue::from(u64)).
LenValue(n) == <<ToString(n)>>

\* Mutant: an empty body is announced with Content-Length: 0.
KindHeaders_EmptyLength(h, k) ==
    IF k.kind = "Empty" THEN HmInsert(h, "content-length", LenValue(0))
    ELSE IF k.kind = "KnownLength" THEN HmInsert(h, "content-length", LenValue(k.len))
    ELSE AppendEncoding(h, "chunked")

\* Mutant: the length is appended to the caller's Content-Length values.
KindHeaders_AppendLength(h, k) ==
    IF k.kind = "Empty" THEN h
    ELSE IF k.kind = "KnownLength" THEN HmAppend(h, "content-length", LenValue(k.len))
    ELSE AppendEncoding(h, "chunked")

\* The match on body.kind(): the headers it leaves.
KindHeaders(h, k) ==
    IF k.kind = "Empty" THEN h
    ELSE IF k.kind = "KnownLength" THEN HmInsert(h, "content-length", LenValue(k.len))
    ELSE AppendEncoding(h, "chunked")

\* Mutant: Connection: close is appended to the caller's values and the
\* default User-Agent replaces the caller's.
NormaliseHeaders_AppendClose(h, k, withFlate2) ==
    LET h1 == HmAppend(h, "connection", <<"close">>)
        h2 == HmInsert(h1, "user-agent", <<DefUserAgent>>)
        h3 == IF withFlate2 THEN HmInsert(h2, "accept-encoding", <<"deflate", "gzip">>) ELSE h2
    IN  KindHeaders(h3, k)

\* Header normalisation, before the loop.
NormaliseHeaders(h, k, withFlate2) ==
    LET h1 == HmInsert(h, "connection", <<"close">>)
        h2 == HmOrInsert(h1, "user-agent", <<DefUserAgent>>)
        h3 == IF withFlate2 THEN HmInsert(h2, "accept-encoding", <<"deflate", "gzip">>) ELSE h2
    IN  KindHeaders(h3, k)

\* The methods and versions a caller builds requests with.
RequestLines ==
    { [method |-> "GET", version |-> "HTTP/1.1"],
      [method |-> "POST", version |-> "HTTP/1.0"] }

\* write_request: the request line, the header lines in map order, then the
\* body, framed by the chunked encoder when `chunked` is set.
WriteRequest(rl, h, b, isChunked) ==
    [ line |-> rl,
      head |-> HeaderLines(h),
      body |-> IF isChunked
               THEN ChunkedWrites(BodyWrites(b)) \o ChunkedClose
               ELSE Concat(BodyWrites(b)) ]

\* The header lines a caller can put on a request.
CallerLines ==
    { [name |-> "content-length", value |-> <<"7">>],
      [name |-> "transfer-encoding", value |-> <<"gzip">>],
      [name |-> "transfer-encoding", value |-> <<"deflate">>],
      [name |-> "connection", value |-> <<"keep-alive">>],
      [name |-> "user-agent", value |-> <<"me">>],
      [name |-> "host", value |-> <<"old">>],
      [name |-> "x-tag", value |-> <<"1">>] }

\* Calls that come back to a name after another name was appended.
RepeatedLines ==
    { <<a, b, a>> : a \in { l \in CallerLines : l.name \in {"x-tag", "connection"} },
                    b \in { l \in CallerLines : l.name \in {"user-agent", "host"} } }

\* request::Builder::header appends each line to the map.
RECURSIVE BuildHeaders(_)
BuildHeaders(lines) ==
    IF lines = <<>> THEN <<>>
    ELSE LET l == lines[Len(lines)]
         IN  HmAppend(BuildHeaders(SubSeq(lines, 1, Len(lines) - 1)), l.name, l.value)

SendIdle ==
    /\ pc = "off"
    /\ uri = [scheme |-> "http", authority |-> "a", port |-> None, path |-> "/p"]
    /\ opts0 = DefaultOptions
    /\ tls = FALSE
    /\ port = None
    /\ follow_redirects = None
    /\ timeout = None
    /\ deadline = None
    /\ start = 0
    /\ now = 0
    /\ sock = "none"
    /\ watcher = "none"
    /\ chan = 0
    /\ headPart = "none"
    /\ resp = NoResp
    /\ result = NoResult
    /\ conns = 0
    /\ followed = 0
    /\ nResp = 0
    /\ firedAt = "none"

InitWire ==
    /\ SendIdle
    /\ IoIdle
    /\ DialIdle
    /\ WatchIdle
    /\ wpc = "new"
    /\ lines0 \in SeqsUpTo(CallerLines, MaxCallerHeaders) \cup RepeatedLines
    /\ headers0 = BuildHeaders(lines0)
    /\ headers = headers0
    /\ reqline \in RequestLines
    /\ body \in Bodies
    /\ flate2 \in BOOLEAN
    /\ chunked = FALSE
    /\ wire = <<>>

\* send_with_opts up to the loop: the headers are normalised and the body
\* kind decides `chunked`, once.
Normalise ==
    /\ wpc = "new"
    /\ headers' = NormaliseHeaders(headers, BodyKind(body), flate2)
    /\ chunked' = (BodyKind(body).kind = "Chunked")
    /\ wpc' = "loop"
    /\ body' = BodyAfterKind(body)
    /\ UNCHANGED <<headers0, lines0, reqline, flate2, wire>>

\* What one hop put on the wire, with the host of the authority it went to.
HopRecord(host, w) == [host |-> host, line |-> w.line, head |-> w.head, body |-> w.body]

\* Mutant: the headers are normalised again on every hop.
WriteHop_NormaliseAgain(host) ==
    /\ wpc = "loop"
    /\ Len(wire) < MaxHops
    /\ headers' = HmInsert(NormaliseHeaders(headers, BodyKind(body), flate2), "host", <<host>>)
    /\ wire' = Append(wire, HopRecord(host, WriteRequest(reqline, headers', body, chunked)))
    /\ body' = BodyAfterWrite(body)
    /\ UNCHANGED <<headers0, lines0, reqline, flate2, chunked, wpc>>

\* Mutant: the Host header is only filled in when the map has none.
WriteHop_HostOrInsert(host) ==
    /\ wpc = "loop"
    /\ Len(wire) < MaxHops
    /\ headers' = HmOrInsert(headers, "host", <<host>>)
    /\ wire' = Append(wire, HopRecord(host, WriteRequest(reqline, headers', body, chunked)))
    /\ body' = BodyAfterWrite(body)
    /\ UNCHANGED <<headers0, lines0, reqline, flate2, chunked, wpc>>

\* One hop of the loop towards the authority `host`: the Host header is
\* set, then the request is written.
WriteHop(host) ==
    /\ wpc = "loop"
    /\ Len(wire) < MaxHops
    /\ headers' = HmInsert(headers, "host", <<host>>)
    /\ wire' = Append(wire, HopRecord(host, WriteRequest(reqline, headers', body, chunked)))
    /\ body' = BodyAfterWrite(body)
    /\ UNCHANGED <<headers0, lines0, reqline, flate2, chunked, wpc>>

NextWire ==
    \/ Normalise /\ UNCHANGED <<sendVars, ioVars, dialVars, watchVars>>
    \/ \E host \in Hosts : WriteHop(host) /\ UNCHANGED <<sendVars, ioVars, dialVars, watchVars>>

SpecWire == InitWire /\ [][NextWire]_vars

(***************************************************************************)
(* Buffered readers and the parse driver (parse.rs)                        *)
(*                                                                         *)
(* A reader is the bytes of its stream, a fill plan (the offsets at which  *)
(* the source hands its bytes over: a fill never crosses a cut) and the    *)
(* number of bytes consumed so far.                                        *)
(***************************************************************************)
MaxFirstCut == 3   \* latest offset of the first cut of a fill plan
MaxCalls == 2      \* write calls made on the chunked encoder
MaxNeed == 3       \* most bytes a token parser has to see
MaxInput == 3      \* longest input handed to the parse driver alone
MaxBody == 2       \* most body bytes behind a response head
MaxTail == 2       \* most bytes of data behind the line bytes ahead of it

MAX_HEADERS == 128

MAX_PARSE_BUF_LEN == MAX_HEADERS * 1024

\* A plan cuts the stream at offset `first` and, with step 1, after every
\* later byte as well.
FillPlans == { [first |-> f, step |-> s] : f \in 1..MaxFirstCut, s \in {0, 1} }

IsCut(p, c) ==
    \/ c = p.first
    \/ p.step > 0 /\ c > p.first /\ (c - p.first) % p.step = 0

\* The end of the fill that starts at offset pos of a stream of n bytes.
NextCut(p, pos, n) ==
    IF \E c \in (pos + 1)..n : IsCut(p, c)
    THEN CHOOSE c \in (pos + 1)..n : IsCut(p, c) /\ \A e \in (pos + 1)..(c - 1) : ~IsCut(p, e)
    ELSE n

\* BufRead::fill_buf: the buffered bytes, empty only at end of stream.
FillBuf(d, p, pos) == SubSeq(d, pos + 1, NextCut(p, pos, Len(d)))

Complete(parsed, val) == [st |-> "Complete", parsed |-> parsed, val |-> val, err |-> "none"]
Partial == [st |-> "Partial", parsed |-> 0, val |-> 0, err |-> "none"]
ParseErr(e) == [st |-> "Err", parsed |-> 0, val |-> 0, err |-> e]

IsHexDigit(b) == \E i \in 1..16 : HexDigits[i] = b

HexDigitVal(b) == (CHOOSE i \in 1..16 : HexDigits[i] = b) - 1

\* httparse::parse_chunk_size over the bytes of the model: hex digits up to
\* CR LF; a CR not followed by LF, a seventeenth digit and any other byte
\* are invalid.
RECURSIVE ChunkSizeScan(_, _, _, _)
ChunkSizeScan(buf, i, size, count) ==
    IF i > Len(buf) THEN Partial
    ELSE IF IsHexDigit(buf[i]) THEN
        IF count > 15 THEN ParseErr("InvalidChunkSize")
        ELSE ChunkSizeScan(buf, i + 1, size * 16 + HexDigitVal(buf[i]), count + 1)
    ELSE IF buf[i] = "CR" THEN
        IF i + 1 > Len(buf) THEN Partial
        ELSE IF buf[i + 1] = "LF" THEN Complete(i + 1, size)
        ELSE ParseErr("InvalidChunkSize")
    ELSE ParseErr("InvalidChunkSize")

\* The closure read_chunk_size hands to parse.
ParseChunkSize(buf) == ChunkSizeScan(buf, 1, 0, 0)

\* Mutant: a lone CR is already an invalid line ending.
ParseLineEnding_LoneCrInvalid(buf) ==
    IF Len(buf) >= 2 /\ SubSeq(buf, 1, 2) = CRLF THEN Complete(2, 0)
    ELSE IF buf = <<>> THEN Partial
    ELSE ParseErr("InvalidLineEnding")

\* The closure read_line_ending hands to parse.
ParseLineEnding(buf) ==
    IF Len(buf) >= 2 /\ SubSeq(buf, 1, 2) = CRLF THEN Complete(2, 0)
    ELSE IF buf = <<>> \/ buf = <<"CR">> THEN Partial
    ELSE ParseErr("InvalidLineEnding")

\* A parser that reports Complete((take, need)) once it is given at least
\* `need` bytes and Partial before: with take < need it looks ahead.
ParseToken(P, buf) ==
    IF Len(buf) >= P.need THEN Complete(P.take, P.need) ELSE Partial

\* With(e, F) is F(e), with e evaluated once.
With(e, F(_)) == CHOOSE y \in { F(x) : x \in {e} } : TRUE

\* The least element of a non-empty set of numbers.
Least(S) == CHOOSE i \in S : \A j \in S : i <= j

\* The offsets at which a blank line (CR LF CR LF) ends.
HeadEnds(buf) ==
    { i \in 4..Len(buf) : /\ buf[i] = "LF" /\ buf[i - 1] = "CR"
                          /\ buf[i - 2] = "LF" /\ buf[i - 3] = "CR" }

\* The offsets at which the bytes stop being a response head: a byte that
\* is neither a line byte (h) nor part of a CR LF, and a stream that does
\* not start with a status line.
HeadBad(buf) ==
    { i \in 1..Len(buf) : \/ buf[i] \notin {"h", "CR", "LF"}
                          \/ i = 1 /\ buf[i] # "h"
                          \/ buf[i] = "LF" /\ i > 1 /\ buf[i - 1] # "CR"
                          \/ buf[i] = "CR" /\ i < Len(buf) /\ buf[i + 1] # "LF" }

\* Mutant: the head is complete at the end of its first line.
ParseHead_FirstLine(buf) ==
    IF \E i \in 2..Len(buf) : buf[i] = "LF"
    THEN Complete(Least({ i \in 2..Len(buf) : buf[i] = "LF" }), 0)
    ELSE Partial

\* The closure read_response hands to parse: httparse's response parser,
\* Complete with the offset of the end of the blank line that ends the
\* head, Partial while the head may still go on.
ParseHead(buf) ==
    With(HeadEnds(buf), LAMBDA e :
        With(HeadBad(buf), LAMBDA b :
            IF b # {} /\ (e = {} \/ Least(b) < Least(e)) THEN ParseErr("HttpParse")
            ELSE IF e # {} THEN Complete(Least(e), 0)
            ELSE Partial))

ChunkSizeParser == [kind |-> "chunk_size", need |-> 0, take |-> 0]
LineEndingParser == [kind |-> "line_ending", need |-> 0, take |-> 0]
HeadParser == [kind |-> "head", need |-> 0, take |-> 0]

TokenParsers ==
    UNION { { [kind |-> "token", need |-> n, take |-> k] : k \in 1..n } : n \in 1..MaxNeed }

ApplyParser(P, buf) ==
    IF P.kind = "chunk_size" THEN ParseChunkSize(buf)
    ELSE IF P.kind = "line_ending" THEN ParseLineEnding(buf)
    ELSE IF P.kind = "head" THEN ParseHead(buf)
    ELSE ParseToken(P, buf)

\* What parse returns, with the reader's position after it; acc is the
\* length of the accumulator buf1 of parse_buffered at that moment.
ParseOk(val, pos) == [tag |-> "Ok", val |-> val, pos |-> pos, err |-> "none", acc |-> 0]
ParseFail(e, pos) == [tag |-> "Err", val |-> 0, pos |-> pos, err |-> e, acc |-> 0]

\* `parsed - (buf1.len() - buf.len())` is below zero: an arithmetic overflow
\* of usize, whose outcome depends on the build.  `fill` is the length of
\* the buffer the reader holds at that moment.
ParseUnderflow(pos, val, fill) ==
    [tag |-> "Underflow", val |-> val, pos |-> pos, err |-> "none", acc |-> 0,
     fill |-> fill]

\* Mutant: on Complete the whole last fill is consumed.
ParseBufferedStep_ConsumesFill(pos, buf, acc, r) ==
    IF r.st = "Err" THEN ParseFail(r.err, pos)
    ELSE IF r.st = "Complete" THEN ParseOk(r.val, pos + Len(buf))
    ELSE [tag |-> "Partial", val |-> 0, pos |-> pos + Len(buf), err |-> "none"]

\* One pass of the loop of parse_buffered once the fill `buf` was appended
\* to the accumulator, now `acc`, and the parser returned r.
ParseBufferedStep(pos, buf, acc, r) ==
    IF r.st = "Err" THEN ParseFail(r.err, pos)
    ELSE IF r.st = "Complete" THEN
        IF r.parsed - (Len(acc) - Len(buf)) < 0 THEN ParseUnderflow(pos, r.val, Len(buf))
        ELSE ParseOk(r.val, pos + (r.parsed - (Len(acc) - Len(buf))))
    ELSE [tag |-> "Partial", val |-> 0, pos |-> pos + Len(buf), err |-> "none"]

\* Mutant: an accumulator that would reach the limit is refused.
OverLimit_AtLimit(held, fill, limit) == held + fill >= limit

\* The limit test of parse_buffered.
OverLimit(held, fill, limit) == held + fill > limit

\* parse_buffered: the loop over fills, with the accumulator buf1.
RECURSIVE ParseBuffered(_, _, _, _, _, _)
ParseBuffered(P, d, p, pos, buf1, limit) ==
    With(FillBuf(d, p, pos), LAMBDA buf :
        IF buf = <<>> THEN [ParseFail("UnexpectedEof", pos) EXCEPT !.acc = Len(buf1)]
        ELSE IF OverLimit(Len(buf1), Len(buf), limit)
        THEN [ParseFail("BufferLimit", pos) EXCEPT !.acc = Len(buf1)]
        ELSE With(buf1 \o buf, LAMBDA acc :
                 With(ParseBufferedStep(pos, buf, acc, With(acc, LAMBDA a : ApplyParser(P, a))),
                      LAMBDA s :
                          IF s.tag = "Partial"
                          THEN ParseBuffered(P, d, p, s.pos, acc, limit)
                          ELSE [s EXCEPT !.acc = Len(acc)])))

\* parse with the accumulator limit as a parameter.
ParseWith(P, d, p, pos, limit) ==
    With(ApplyParser(P, FillBuf(d, p, pos)), LAMBDA r :
        IF r.st = "Err" THEN ParseFail(r.err, pos)
        ELSE IF r.st = "Complete" THEN ParseOk(r.val, pos + r.parsed)
        ELSE ParseBuffered(P, d, p, pos, <<>>, limit))

\* parse: the fast path on the reader's own buffer, else parse_buffered.
Parse(P, d, p, pos) == ParseWith(P, d, p, pos, MAX_PARSE_BUF_LEN)

(***************************************************************************)
(* The chunked decoder (chunked.rs)                                        *)
(***************************************************************************)
CrOk(buf, c) == [tag |-> "Ok", err |-> "none", buf |-> buf, rd |-> c]
CrFail(e, c) == [tag |-> "Err", err |-> e, buf |-> <<>>, rd |-> c]

Min(a, b) == IF a < b THEN a ELSE b

\* The tail of fill_buf: the reader's buffer, cut down to the remainder of
\* the current chunk.
CrBuffer(d, p, c) ==
    With(FillBuf(d, p, c.pos), LAMBDA buf :
        CrOk(SubSeq(buf, 1, Min(Len(buf), c.rem)), c))

\* fill_buf after the chunk-size line was read as `cs`.
CrAfterSize(d, p, cs) ==
    IF cs.tag # "Ok" THEN CrFail(cs.err, [pos |-> cs.pos, rem |-> 0, state |-> "Next"])
    ELSE IF cs.val = 0 THEN
        With(Parse(LineEndingParser, d, p, cs.pos), LAMBDA fe :
            IF fe.tag # "Ok" THEN CrFail(fe.err, [pos |-> fe.pos, rem |-> 0, state |-> "Next"])
            ELSE CrBuffer(d, p, [pos |-> fe.pos, rem |-> 0, state |-> "Done"]))
    ELSE CrBuffer(d, p, [pos |-> cs.pos, rem |-> cs.val, state |-> "Next"])

\* Mutant: a reader that is Done goes on to the next chunk.
CrFillBuf_NoDoneCheck(d, p, c) ==
    IF c.rem = 0 THEN
        IF c.state # "Init" THEN
            With(Parse(LineEndingParser, d, p, c.pos), LAMBDA le :
                IF le.tag # "Ok" THEN CrFail(le.err, [c EXCEPT !.pos = le.pos])
                ELSE With(Parse(ChunkSizeParser, d, p, le.pos),
                          LAMBDA cs : CrAfterSize(d, p, cs)))
        ELSE With(Parse(ChunkSizeParser, d, p, c.pos), LAMBDA cs : CrAfterSize(d, p, cs))
    ELSE CrBuffer(d, p, c)

\* ChunkedReader::fill_buf.
CrFillBuf(d, p, c) ==
    IF c.rem = 0 /\ c.state # "Done" THEN
        IF c.state # "Init" THEN
            With(Parse(LineEndingParser, d, p, c.pos), LAMBDA le :
                IF le.tag # "Ok" THEN CrFail(le.err, [c EXCEPT !.pos = le.pos])
                ELSE With(Parse(ChunkSizeParser, d, p, le.pos),
                          LAMBDA cs : CrAfterSize(d, p, cs)))
        ELSE With(Parse(ChunkSizeParser, d, p, c.pos), LAMBDA cs : CrAfterSize(d, p, cs))
    ELSE CrBuffer(d, p, c)

\* ChunkedReader::consume.
CrConsume(c, amt) ==
    LET a == Min(amt, c.rem) IN [c EXCEPT !.pos = @ + a, !.rem = @ - a]

\* ChunkedReader::read into a caller buffer of `cap` bytes.
CrRead(d, p, c, cap) ==
    With(CrFillBuf(d, p, c), LAMBDA f :
        IF f.tag # "Ok" THEN f
        ELSE CrOk(SubSeq(f.buf, 1, Min(cap, Len(f.buf))),
                  CrConsume(f.rd, Min(cap, Len(f.buf)))))


(***************************************************************************)
(* The chunked codec end to end, and the parse driver on its own           *)
(***************************************************************************)
\* Buffers handed to the chunked encoder: among them one that spells the
\* terminator and one whose length has two hex digits.
LongBuffer == [i \in 1..16 |-> "x"]

CodecBuffers == { <<>>, <<"x", "y">>, <<"0", "CR", "LF", "CR", "LF">> }

CodecCalls == SeqsUpTo(CodecBuffers, MaxCalls) \cup { <<LongBuffer>> }

\* Caller buffer sizes of Read::read.
ReadCaps == {1, 3, 32}

\* Write::write_all hands a buffer to write only while it is not empty;
\* a direct call of write hands over whatever it is given.
EncoderWrites(a, bufs) ==
    IF a = "write_all" THEN SelectSeq(bufs, LAMBDA buf : buf # <<>>) ELSE bufs

InitCodec ==
    /\ SendIdle
    /\ WireIdle
    /\ DialIdle
    /\ WatchIdle
    /\ cpc = "new"
    /\ calls \in CodecCalls
    /\ api \in {"write_all", "write"}
    /\ data = <<>>
    /\ plan \in FillPlans
    /\ pad = 0
    /\ cr = NewReader
    /\ sizes = <<>>
    /\ out = <<>>
    /\ rres = "none"
    /\ truncated = FALSE
    /\ parser = NoParser
    /\ pres = NoParse
    /\ te = <<>>
    /\ layers = NoLayers

\* The producer writes through a ChunkedWriter, which is then closed.
Encode ==
    /\ cpc = "new"
    /\ data' = ChunkedWrites(EncoderWrites(api, calls)) \o ChunkedClose
    /\ cpc' = "sent"
    /\ UNCHANGED <<te, layers, calls, api, plan, pad, cr, sizes, out, rres, truncated, parser, pres>>

\* The stream ends early: the reader gets the first k bytes only.
Truncate(k) ==
    /\ cpc = "sent"
    /\ ~truncated
    /\ k < Len(data)
    /\ data' = SubSeq(data, 1, k)
    /\ truncated' = TRUE
    /\ UNCHANGED <<te, layers, calls, api, plan, pad, cr, sizes, out, rres, cpc, parser, pres>>

\* One pass of read_to_end over a ChunkedReader: a read into `cap` free
\* bytes; zero bytes end the loop with Ok, an error ends it with that error.
ReadToEndStep(cap) ==
    /\ cpc \in {"sent", "reading"}
    /\ \E r \in { CrRead(data, plan, cr, cap) } :
        /\ cr' = r.rd
        /\ sizes' = IF cr.rem = 0 /\ cr.state # "Done" /\ r.tag = "Ok"
                    THEN Append(sizes, r.rd.rem + Len(r.buf))
                    ELSE sizes
        /\ IF r.tag # "Ok" THEN
               /\ rres' = r.err
               /\ cpc' = "done"
               /\ UNCHANGED out
           ELSE IF r.buf = <<>> THEN
               /\ rres' = "Eof"
               /\ cpc' = "done"
               /\ UNCHANGED out
           ELSE
               /\ out' = out \o r.buf
               /\ cpc' = "reading"
               /\ UNCHANGED rres
    /\ UNCHANGED <<te, layers, calls, api, data, plan, pad, truncated, parser, pres>>

NextCodec ==
    \/ Encode /\ UNCHANGED <<sendVars, wireVars, dialVars, watchVars>>
    \/ \E k \in 0..(Len(data) - 1) : Truncate(k) /\ UNCHANGED <<sendVars, wireVars, dialVars, watchVars>>
    \/ \E cap \in ReadCaps : ReadToEndStep(cap) /\ UNCHANGED <<sendVars, wireVars, dialVars, watchVars>>

SpecCodec == InitCodec /\ [][NextCodec]_vars

\* Streams handed to the parse driver.
ParseInputs == SeqsUpTo({"1", "CR", "LF", "x"}, MaxInput)

\* Response heads: a status line, or a status line and a header line, and
\* the blank line.
Heads ==
    { <<"h">> \o CRLF \o CRLF,
      <<"h">> \o CRLF \o <<"h", "h">> \o CRLF \o CRLF }

\* Responses: a head and the bytes of a body, and heads cut short.
HeadInputs ==
    { hd \o b : hd \in Heads, b \in SeqsUpTo({"h", "CR", "LF", "x"}, MaxBody) }
    \cup UNION { { SubSeq(hd, 1, k) : k \in 0..(Len(hd) - 1) } : hd \in Heads }

\* A plan for a stream of n bytes: the first cut anywhere in it.
PlansOver(n) == { [first |-> f, step |-> s] : f \in 1..(IF n = 0 THEN 1 ELSE n), s \in {0, 1} }

\* A line of n bytes.
LineOf(n) == [i \in 1..n |-> "h"] \o <<>>

\* The last bytes of a header line that does not end: with the line bytes
\* ahead of them the stream is as long as the accumulator may grow, a byte
\* shorter, or longer.
LongTails == { LineOf(n) : n \in 0..MaxTail }

\* The bytes of the stream.
Stream == IF pad = 0 THEN data ELSE LineOf(pad) \o data

\* Plans whose fills bring the accumulator up to the limit.
LongPlans ==
    { [first |-> f, step |-> 0] : f \in 1..MaxFirstCut }
    \cup { [first |-> MAX_PARSE_BUF_LEN - 1, step |-> s] : s \in {0, 1} }

InitParse ==
    /\ SendIdle
    /\ WireIdle
    /\ DialIdle
    /\ WatchIdle
    /\ cpc = "parse"
    /\ calls = <<>>
    /\ api = "write_all"
    /\ \/ /\ data \in ParseInputs
          /\ plan \in FillPlans
          /\ parser \in TokenParsers \cup {ChunkSizeParser, LineEndingParser}
          /\ pad = 0
       \/ /\ data \in HeadInputs
          /\ plan \in PlansOver(Len(data))
          /\ parser = HeadParser
          /\ pad = 0
       \/ /\ data \in LongTails
          /\ plan \in LongPlans
          /\ parser = HeadParser
          /\ pad = MAX_PARSE_BUF_LEN - MaxTail + 1
    /\ cr = NewReader
    /\ sizes = <<>>
    /\ out = <<>>
    /\ rres = "none"
    /\ truncated = FALSE
    /\ pres = NoParse
    /\ te = <<>>
    /\ layers = NoLayers

\* One call of parse.  When the final consume underflows, a build with
\* overflow checks panics; a build without them passes the wrapped amount
\* to consume, which stops at the end of the reader's buffer.
ParseCall ==
    /\ cpc = "parse"
    /\ \E r \in { With(Stream, LAMBDA st : Parse(parser, st, plan, cr.pos)) } :
        IF r.tag = "Underflow" THEN
            \/ /\ pres' = [tag |-> "Panic", val |-> 0, err |-> "none", acc |-> r.acc]
               /\ cr' = [cr EXCEPT !.pos = r.pos]
            \/ /\ pres' = [tag |-> "Ok", val |-> r.val, err |-> "none", acc |-> r.acc]
               /\ cr' = [cr EXCEPT !.pos = r.pos + r.fill]
        ELSE
            /\ pres' = [tag |-> r.tag, val |-> r.val, err |-> r.err, acc |-> r.acc]
            /\ cr' = [cr EXCEPT !.pos = r.pos]
    /\ cpc' = "parsed"
    /\ UNCHANGED <<te, layers, calls, api, data, plan, pad, sizes, out, rres, truncated, parser>>

\* After a successful parse the caller reads on from the same reader.
ReadNext ==
    /\ cpc = "parsed"
    /\ pres.tag = "Ok"
    /\ \E buf \in { FillBuf(data, plan, cr.pos) } : out' = SubSeq(buf, 1, Min(1, Len(buf)))
    /\ cpc' = "done"
    /\ UNCHANGED <<te, layers, calls, api, data, plan, pad, cr, sizes, rres, truncated, parser, pres>>

\* read_response hands the same BufReader to the body reader, which the
\* caller reads to its end: each read takes what the reader's buffer holds.
ReadBody ==
    /\ cpc \in {"parsed", "body"}
    /\ pres.tag = "Ok"
    /\ parser = HeadParser
    /\ \E buf \in { FillBuf(data, plan, cr.pos) } :
        IF buf = <<>> THEN cpc' = "body_end" /\ UNCHANGED <<out, cr>>
        ELSE /\ out' = out \o buf
             /\ cr' = [cr EXCEPT !.pos = cr.pos + Len(buf)]
             /\ cpc' = "body"
    /\ UNCHANGED <<te, layers, calls, api, data, plan, pad, sizes, rres, truncated, parser, pres>>

NextParse ==
    \/ ParseCall /\ UNCHANGED <<sendVars, wireVars, dialVars, watchVars>>
    \/ ReadNext /\ UNCHANGED <<sendVars, wireVars, dialVars, watchVars>>
    \/ ReadBody /\ UNCHANGED <<sendVars, wireVars, dialVars, watchVars>>

SpecParse == InitParse /\ [][NextParse]_vars

(***************************************************************************)
(* The layers of the body reader (body_reader.rs)                          *)
(*                                                                         *)
(* A header value is a sequence of pieces: a comma, a blank, a byte that   *)
(* is not visible ASCII, or the letters of a word.                         *)
(***************************************************************************)
MaxPieces == 3   \* most pieces of a Transfer-Encoding value

Words == {"chunked", "Chunked", "CHUNKED", "gzip"}

Pieces == Words \cup {",", " ", "obs"}

TeValues == SeqsUpTo(Pieces, MaxPieces)

\* The Transfer-Encoding lines of a response: none, one, or two lines of
\* one word each.
TeHeaders ==
    { <<>> } \cup { <<v>> : v \in TeValues }
    \cup { << <<a>>, <<b>> >> : a, b \in {"chunked", "gzip"} }

\* str::split(','): the runs of pieces between the commas.
RECURSIVE SplitCommas(_, _)
SplitCommas(v, run) ==
    IF v = <<>> THEN <<run>>
    ELSE IF Head(v) = "," THEN <<run>> \o SplitCommas(Tail(v), <<>>)
    ELSE SplitCommas(Tail(v), Append(run, Head(v)))

\* str::trim: the blanks at both ends are cut off.
RECURSIVE TrimStart(_)
TrimStart(w) == IF w # <<>> /\ Head(w) = " " THEN TrimStart(Tail(w)) ELSE w

RECURSIVE TrimEnd(_)
TrimEnd(w) ==
    IF w # <<>> /\ w[Len(w)] = " " THEN TrimEnd(SubSeq(w, 1, Len(w) - 1)) ELSE w

Trim(w) == TrimEnd(TrimStart(w))

\* str::to_ascii_lowercase.
ToAsciiLowercase(w) ==
    [i \in 1..Len(w) |-> IF w[i] \in {"Chunked", "CHUNKED"} THEN "chunked" ELSE w[i]]

\* HeaderValue::to_str fails on a byte that is not visible ASCII.
ToStrFails(v) == \E i \in 1..Len(v) : v[i] = "obs"

\* split_encodings on a value whose to_str succeeded.
SplitEncodings(v) ==
    LET parts == SplitCommas(v, <<>>)
    IN  [i \in 1..Len(parts) |-> ToAsciiLowercase(Trim(parts[i]))]

\* HeaderMap::get: the first value of the name.
HeaderGet(h) == IF h = <<>> THEN None ELSE Some(h[1])

\* chunked_reader: one ChunkedReader is layered for every token of the
\* first Transfer-Encoding value that equals "chunked".
ChunkedReaderLayers(h) ==
    With(HeaderGet(h), LAMBDA first :
        IF ~first.some THEN [tag |-> "Ok", n |-> 0]
        ELSE IF ToStrFails(first.val) THEN [tag |-> "Err", n |-> 0]
        ELSE With(SplitEncodings(first.val), LAMBDA encs :
                 [tag |-> "Ok",
                  n |-> Cardinality({ i \in 1..Len(encs) : encs[i] = <<"chunked">> })]))

InitLayer ==
    /\ SendIdle
    /\ WireIdle
    /\ DialIdle
    /\ WatchIdle
    /\ cpc = "headers"
    /\ calls = <<>>
    /\ api = "write_all"
    /\ data = <<>>
    /\ plan = [first |-> 1, step |-> 0]
    /\ pad = 0
    /\ cr = NewReader
    /\ sizes = <<>>
    /\ out = <<>>
    /\ rres = "none"
    /\ truncated = FALSE
    /\ parser = NoParser
    /\ pres = NoParse
    /\ te \in TeHeaders
    /\ layers = NoLayers

\* BodyReader::new over the response headers.
NewBodyReader ==
    /\ cpc = "headers"
    /\ layers' = ChunkedReaderLayers(te)
    /\ cpc' = "layered"
    /\ UNCHANGED <<te, calls, api, data, plan, pad, cr, sizes, out, rres, truncated,
                   parser, pres>>

NextLayer ==
    NewBodyReader /\ UNCHANGED <<sendVars, wireVars, dialVars, watchVars>>

SpecLayer == InitLayer /\ [][NextLayer]_vars

(***************************************************************************)
(* The Happy-Eyeballs dialer (happy_eyeballs.rs)                           *)
(***************************************************************************)
MaxAddrs == 3   \* most addresses the resolver returns

Families == {"v6", "v4"}

ResolvedLists == SeqsUpTo(Families, MaxAddrs)

\* How many of the first i-1 addresses are of the family of address i: the
\* index that filter(..).enumerate() gives address i.
FamilyIndex(a, i) == Cardinality({ j \in 1..(i - 1) : a[j] = a[i] })

\* Mutant: IPv4 addresses take the even priorities, IPv6 the odd ones.
Prio_V4First(a, i) ==
    IF a[i] = "v4" THEN 2 * FamilyIndex(a, i) ELSE 2 * FamilyIndex(a, i) + 1

\* The priority the two passes over addrs assign to address i.
Prio(a, i) ==
    IF a[i] = "v6" THEN 2 * FamilyIndex(a, i) ELSE 2 * FamilyIndex(a, i) + 1

\* sort_unstable_by_key on the priority: the arrangement of the addresses
\* in which priorities do not decrease.  An unstable sort may return any such
\* arrangement; the choice below is one of them.
SortByPrio(a) ==
    CHOOSE s \in [1..Len(a) -> 1..Len(a)] :
        /\ \A i, j \in 1..Len(a) : i # j => s[i] # s[j]
        /\ \A i, j \in 1..Len(a) : i < j => Prio(a, s[i]) <= Prio(a, s[j])

\* Mutant: the error of the latest failure is kept.
FirstErr_Latest(fe, k) == k

\* first_err.or(Some(err)).
FirstErr(fe, k) == IF fe = 0 THEN k ELSE fe

InitDial ==
    /\ SendIdle
    /\ WireIdle
    /\ IoIdle
    /\ WatchIdle
    /\ dpc = "start"
    /\ addrs \in ResolvedLists
    /\ order = <<>>
    /\ launched = 0
    /\ att = [k \in 1..Len(addrs) |-> "idle"]
    /\ rxq = <<>>
    /\ first_err = 0
    /\ recvLog = <<>>
    /\ conn = [k \in 1..Len(addrs) |-> "none"]
    /\ dres = NoDial

\* connect after resolve_addrs: one address is dialled on the calling
\* thread; otherwise the addresses are given priorities and sorted.
Prepare ==
    /\ dpc = "start"
    /\ IF Len(addrs) = 1
       THEN /\ dpc' = "single"
            /\ order' = <<1>>
            /\ launched' = 1
            /\ att' = [att EXCEPT ![1] = "running"]
       ELSE /\ dpc' = "launch"
            /\ order' = SortByPrio(addrs)
            /\ UNCHANGED <<launched, att>>
    /\ UNCHANGED <<addrs, rxq, first_err, recvLog, conn, dres>>

\* TcpStream::connect_timeout on the only address returns.
SingleDone(ok) ==
    /\ dpc = "single"
    /\ att' = [att EXCEPT ![1] = IF ok THEN "ok" ELSE "err"]
    /\ conn' = [conn EXCEPT ![1] = IF ok THEN "caller" ELSE "none"]
    /\ dres' = [tag |-> IF ok THEN "Ok" ELSE "Err", who |-> 1]
    /\ dpc' = "done"
    /\ UNCHANGED <<addrs, order, launched, rxq, first_err, recvLog>>

\* The head of the launch loop: the next address gets its worker thread.
Launch ==
    /\ dpc = "launch"
    /\ launched < Len(order)
    /\ launched' = launched + 1
    /\ att' = [att EXCEPT ![launched + 1] = "running"]
    /\ dpc' = "wait"
    /\ UNCHANGED <<addrs, order, rxq, first_err, recvLog, conn, dres>>

\* Mutant: the receiver outlives connect, and the streams queued in it
\* stay open.
DropRx_Leak(winner) == [conn EXCEPT ![winner] = "caller"]

\* connect returns the stream of `winner`: rx goes out of scope, and the
\* streams still queued in the channel are dropped with it.
DropRx(winner) ==
    [k \in 1..Len(conn) |-> IF k = winner THEN "caller"
                            ELSE IF conn[k] = "queued" THEN "closed"
                            ELSE conn[k]]

\* What the main thread does with a result it received: a stream is
\* returned at once, an error is kept if it is the first.
Received(msg, nextPc) ==
    /\ recvLog' = Append(recvLog, msg)
    /\ IF msg.ok
       THEN /\ dres' = [tag |-> "Ok", who |-> msg.k]
            /\ dpc' = "done"
            /\ conn' = DropRx(msg.k)
            /\ UNCHANGED first_err
       ELSE /\ first_err' = FirstErr(first_err, msg.k)
            /\ dpc' = nextPc
            /\ UNCHANGED <<dres, conn>>

\* Mutant: after a failure the main thread waits on for the rest of the
\* delay.
WaitRecv_KeepsWaiting ==
    /\ dpc = "wait"
    /\ rxq # <<>>
    /\ Received(Head(rxq), "wait")
    /\ rxq' = Tail(rxq)
    /\ UNCHANGED <<addrs, order, launched, att>>

\* recv_timeout(delay) returns a result.
WaitRecv ==
    /\ dpc = "wait"
    /\ rxq # <<>>
    /\ Received(Head(rxq), "launch")
    /\ rxq' = Tail(rxq)
    /\ UNCHANGED <<addrs, order, launched, att>>

\* recv_timeout(delay) times out: nothing arrived within the delay.
WaitTimeout ==
    /\ dpc = "wait"
    /\ rxq = <<>>
    /\ dpc' = "launch"
    /\ UNCHANGED <<addrs, order, launched, att, rxq, first_err, recvLog, conn, dres>>

\* The launch loop is over: the main thread drops its sender.
EndLaunch ==
    /\ dpc = "launch"
    /\ launched = Len(order)
    /\ dpc' = "drain"
    /\ UNCHANGED <<addrs, order, launched, att, rxq, first_err, recvLog, conn, dres>>

\* rx.iter() yields a result.
DrainRecv ==
    /\ dpc = "drain"
    /\ rxq # <<>>
    /\ Received(Head(rxq), "drain")
    /\ rxq' = Tail(rxq)
    /\ UNCHANGED <<addrs, order, launched, att>>

\* Mutant: the main thread keeps its sender, so rx.iter() never ends.
DrainEnd_SenderKept ==
    /\ dpc = "drain"
    /\ rxq = <<>>
    /\ FALSE
    /\ UNCHANGED dialVars

\* rx.iter() ends: the channel is empty and every sender is gone.  unwrap
\* panics on a first_err that is still None.
DrainEnd ==
    /\ dpc = "drain"
    /\ rxq = <<>>
    /\ \A k \in 1..Len(att) : att[k] # "running"
    /\ dres' = IF first_err = 0 THEN [tag |-> "Panic", who |-> 0]
               ELSE [tag |-> "Err", who |-> first_err]
    /\ dpc' = "done"
    /\ UNCHANGED <<addrs, order, launched, att, rxq, first_err, recvLog, conn>>

\* A worker's connect_timeout returns and the worker sends the result; once
\* connect has returned the receiver is gone, the send fails unnoticed and
\* the stream handed back in the SendError is dropped.
WorkerDone(k, ok) ==
    /\ dpc \in {"launch", "wait", "drain", "done"}
    /\ k \in 1..Len(att)
    /\ att[k] = "running"
    /\ att' = [att EXCEPT ![k] = IF ok THEN "ok" ELSE "err"]
    /\ rxq' = IF dpc = "done" THEN rxq ELSE Append(rxq, [k |-> k, ok |-> ok])
    /\ conn' = [conn EXCEPT ![k] = IF ~ok THEN "none"
                                   ELSE IF dpc = "done" THEN "closed"
                                   ELSE "queued"]
    /\ UNCHANGED <<addrs, order, launched, first_err, recvLog, dres, dpc>>

NextDial ==
    \/ Prepare /\ UNCHANGED <<sendVars, wireVars, ioVars, watchVars>>
    \/ \E ok \in BOOLEAN : SingleDone(ok) /\ UNCHANGED <<sendVars, wireVars, ioVars, watchVars>>
    \/ Launch /\ UNCHANGED <<sendVars, wireVars, ioVars, watchVars>>
    \/ WaitRecv /\ UNCHANGED <<sendVars, wireVars, ioVars, watchVars>>
    \/ WaitTimeout /\ UNCHANGED <<sendVars, wireVars, ioVars, watchVars>>
    \/ EndLaunch /\ UNCHANGED <<sendVars, wireVars, ioVars, watchVars>>
    \/ DrainRecv /\ UNCHANGED <<sendVars, wireVars, ioVars, watchVars>>
    \/ DrainEnd /\ UNCHANGED <<sendVars, wireVars, ioVars, watchVars>>
    \/ \E k \in 1..MaxAddrs, ok \in BOOLEAN :
           WorkerDone(k, ok) /\ UNCHANGED <<sendVars, wireVars, ioVars, watchVars>>

SpecDial == InitDial /\ [][NextDial]_vars

\* The dialer with every thread scheduled: the main thread goes on from
\* each of its positions (a recv_timeout returns at the latest after the
\* delay), and connect_timeout returns in every worker.
DialFairness ==
    /\ WF_dialVars(Prepare)
    /\ WF_dialVars(\E ok \in BOOLEAN : SingleDone(ok))
    /\ WF_dialVars(Launch)
    /\ WF_dialVars(WaitRecv)
    /\ WF_dialVars(WaitTimeout)
    /\ WF_dialVars(EndLaunch)
    /\ WF_dialVars(DrainRecv)
    /\ WF_dialVars(DrainEnd)
    /\ \A k \in 1..MaxAddrs : WF_dialVars(\E ok \in BOOLEAN : WorkerDone(k, ok))

SpecDialLive == SpecDial /\ DialFairness

(***************************************************************************)
(* Timeout::start and Timeout::read on one stream (timeout.rs)             *)
(*                                                                         *)
(* The spawned thread is followed to its end, also after the caller has    *)
(* dropped the Timeout handle.                                             *)
(***************************************************************************)
MaxReads == 2   \* zero-byte reads the caller makes through Timeout::read

\* Mutant: everything but a received signal makes recv_timeout's caller
\* shut down.
RecvTimeout_DisconnectedFires(q, txAlive, elapsed) ==
    IF q > 0 THEN "Ok"
    ELSE IF ~txAlive THEN "Timeout"
    ELSE IF elapsed THEN "Timeout"
    ELSE "Block"

\* Receiver::recv_timeout: a queued message is returned first; an empty
\* channel whose sender is gone is Disconnected; else the call blocks until
\* the timeout has elapsed.
RecvTimeout(q, txAlive, elapsed) ==
    IF q > 0 THEN "Ok"
    ELSE IF ~txAlive THEN "Disconnected"
    ELSE IF elapsed THEN "Timeout"
    ELSE "Block"

\* Mutant: a disconnected channel is taken for an empty one.
TryRecv_DisconnectedIsEmpty(q, txAlive) ==
    IF q > 0 THEN "Ok" ELSE "Empty"

\* Receiver::try_recv.
TryRecv(q, txAlive) ==
    IF q > 0 THEN "Ok"
    ELSE IF ~txAlive THEN "Disconnected"
    ELSE "Empty"

\* The thread still holds the receiver.
RxHeld == thr \in {"spawned", "recv_timeout", "try_recv", "shutdown"}

InitWatch ==
    /\ SendIdle
    /\ WireIdle
    /\ IoIdle
    /\ DialIdle
    /\ thr = "spawned"
    /\ arm = "none"
    /\ tx = TRUE
    /\ queue = 0
    /\ wdeadline \in 0..MaxTime
    /\ wclock = 0
    /\ shutdowns = 0
    /\ cancelAt = None
    /\ reads = <<>>

\* deadline.checked_duration_since(Instant::now()): Some when the deadline
\* is not yet past.
ThreadStart ==
    /\ thr = "spawned"
    /\ thr' = IF wdeadline >= wclock THEN "recv_timeout" ELSE "try_recv"
    /\ arm' = IF wdeadline >= wclock THEN "Some" ELSE "None"
    /\ UNCHANGED <<tx, queue, wdeadline, wclock, shutdowns, cancelAt, reads>>

\* rx.recv_timeout(timeout) == Err(RecvTimeoutError::Timeout)
ThreadRecvTimeout ==
    /\ thr = "recv_timeout"
    /\ \E r \in { RecvTimeout(queue, tx, wclock >= wdeadline) } :
         /\ r # "Block"
         /\ thr' = IF r = "Timeout" THEN "shutdown" ELSE "exited"
         /\ queue' = IF r = "Ok" THEN queue - 1 ELSE queue
    /\ UNCHANGED <<arm, tx, wdeadline, wclock, shutdowns, cancelAt, reads>>

\* rx.try_recv() == Err(TryRecvError::Empty)
ThreadTryRecv ==
    /\ thr = "try_recv"
    /\ \E r \in { TryRecv(queue, tx) } :
         /\ thr' = IF r = "Empty" THEN "shutdown" ELSE "exited"
         /\ queue' = IF r = "Ok" THEN queue - 1 ELSE queue
    /\ UNCHANGED <<arm, tx, wdeadline, wclock, shutdowns, cancelAt, reads>>

\* if shutdown { drop(rx); ..
ThreadDropRx ==
    /\ thr = "shutdown"
    /\ thr' = "rx_dropped"
    /\ UNCHANGED <<arm, tx, queue, wdeadline, wclock, shutdowns, cancelAt, reads>>

\* .. let _ = stream.shutdown(Shutdown::Both); }
ThreadShutdown ==
    /\ thr = "rx_dropped"
    /\ thr' = "fired"
    /\ shutdowns' = shutdowns + 1
    /\ UNCHANGED <<arm, tx, queue, wdeadline, wclock, cancelAt, reads>>

\* Timeout::read when the wrapped read returns zero into a non-empty
\* buffer: the cancel signal is sent if the receiver still exists.
CallerReadZero ==
    /\ tx
    /\ Len(reads) < MaxReads
    /\ reads' = Append(reads, TimeoutReadZero(RxHeld))
    /\ queue' = IF RxHeld THEN queue + 1 ELSE queue
    /\ cancelAt' = IF RxHeld /\ ~cancelAt.some THEN Some(wclock) ELSE cancelAt
    /\ UNCHANGED <<thr, arm, tx, wdeadline, wclock, shutdowns>>

\* The stream, and its Timeout handle with it, is dropped.
CallerDrop ==
    /\ tx
    /\ tx' = FALSE
    /\ cancelAt' = IF ~cancelAt.some THEN Some(wclock) ELSE cancelAt
    /\ UNCHANGED <<thr, arm, queue, wdeadline, wclock, shutdowns, reads>>

TickWatch ==
    /\ wclock < MaxTime
    /\ wclock' = wclock + 1
    /\ UNCHANGED <<thr, arm, tx, queue, wdeadline, shutdowns, cancelAt, reads>>

NextWatch ==
    \/ ThreadStart /\ UNCHANGED <<sendVars, wireVars, ioVars, dialVars>>
    \/ ThreadRecvTimeout /\ UNCHANGED <<sendVars, wireVars, ioVars, dialVars>>
    \/ ThreadTryRecv /\ UNCHANGED <<sendVars, wireVars, ioVars, dialVars>>
    \/ ThreadDropRx /\ UNCHANGED <<sendVars, wireVars, ioVars, dialVars>>
    \/ ThreadShutdown /\ UNCHANGED <<sendVars, wireVars, ioVars, dialVars>>
    \/ CallerReadZero /\ UNCHANGED <<sendVars, wireVars, ioVars, dialVars>>
    \/ CallerDrop /\ UNCHANGED <<sendVars, wireVars, ioVars, dialVars>>
    \/ TickWatch /\ UNCHANGED <<sendVars, wireVars, ioVars, dialVars>>

SpecWatch == InitWatch /\ [][NextWatch]_vars

(***************************************************************************)
(* Properties of the send pipeline                                         *)
(***************************************************************************)
\* The response the redirect decision is about to look at, or looked at last.
LastRead == nResp > 0 /\ resp.id = nResp

\* The step in which send leaves the redirect decision.
Decides == pc = "redirect" /\ pc' # "redirect"

\* C1: with follow_redirects = Some(n) a redirect is followed only on status
\* 301, 302, 303, 307 or 308; on every other status, with or without a
\* Location header, send returns that response, opens no further connection
\* and leaves the redirect counter alone.
C1_OnlyTriggerStatusesRedirect ==
    [][ (Decides /\ opts0.follow_redirects.some) =>
          /\ (followed' # followed => resp.status \in TriggerStatuses)
          /\ (resp.status \notin TriggerStatuses =>
                /\ pc' = "done"
                /\ result' = Ok(resp)
                /\ conns' = conns
                /\ followed' = followed
                /\ follow_redirects' = follow_redirects) ]_vars

C1_Witness ==
    /\ pc = "done"
    /\ opts0.follow_redirects.some
    /\ result.tag = "Ok"
    /\ result.resp.status = 304
    /\ result.resp.location.kind = "abs"
    /\ follow_redirects = opts0.follow_redirects
    /\ conns = 1

\* C2: with follow_redirects = Some(n), when the last response read is not a
\* redirect and the k responses before it were followed redirects, send
\* returns Ok with that last response (its status and its body), k <= n and
\* exactly k+1 connections were opened.
C2_FinalResponseReturned ==
    (pc = "done" /\ opts0.follow_redirects.some /\ LastRead
        /\ resp.status \notin TriggerStatuses)
    => /\ result = Ok(resp)
       /\ followed = nResp - 1
       /\ followed <= opts0.follow_redirects.val
       /\ conns = followed + 1

C2_Witness ==
    /\ pc = "done"
    /\ opts0.follow_redirects = Some(2)
    /\ followed = 2
    /\ result.tag = "Ok"
    /\ result.resp.status = 200
    /\ result.resp.id = 3
    /\ conns = 3

\* C3: with follow_redirects = Some(n) send never opens more than n+1
\* connections; a redirect response read as the (n+1)-th response makes send
\* fail with TooManyRedirects; the counter never increases and drops by
\* exactly one whenever a redirect is followed.
C3_CounterState ==
    opts0.follow_redirects.some =>
        /\ conns <= opts0.follow_redirects.val + 1
        /\ follow_redirects.some
        /\ follow_redirects.val >= 0
        /\ (pc # "done" => follow_redirects.val = opts0.follow_redirects.val - followed)
        /\ (pc = "done" /\ LastRead /\ nResp = opts0.follow_redirects.val + 1
              /\ resp.status \in TriggerStatuses
            => result = Err("TooManyRedirects"))

C3_CounterStep ==
    opts0.follow_redirects.some =>
        /\ follow_redirects'.val <= follow_redirects.val
        /\ follow_redirects'.val >= follow_redirects.val - 1
        /\ (followed' # followed =>
              /\ followed' = followed + 1
              /\ follow_redirects'.val = follow_redirects.val - 1)

C3_RedirectsBounded == [] C3_CounterState /\ [][C3_CounterStep]_vars

C3_Witness ==
    /\ pc = "done"
    /\ opts0.follow_redirects = Some(2)
    /\ conns = 3
    /\ nResp = 3
    /\ resp.status = 301
    /\ resp.location.kind = "abs"
    /\ result = Err("TooManyRedirects")

\* C4: with follow_redirects = None send opens at most one connection,
\* follows nothing, returns the first response it reads whatever its status,
\* and never fails with TooManyRedirects or MissingLocation.
C4_RedirectsDisabled ==
    ~opts0.follow_redirects.some =>
        /\ conns <= 1
        /\ followed = 0
        /\ (result.tag = "Err" => result.err \notin {"TooManyRedirects", "MissingLocation"})
        /\ (pc = "done" /\ nResp > 0 => result = Ok(resp) /\ resp.id = 1)

C4_Witness ==
    /\ pc = "done"
    /\ ~opts0.follow_redirects.some
    /\ result.tag = "Ok"
    /\ result.resp.status = 301
    /\ result.resp.location.kind = "none"
    /\ conns = 1

C6_LocationNotRequired ==
    (pc = "done" /\ opts0 = DefaultOptions /\ LastRead /\ nResp = 1
        /\ resp.status = 301 /\ resp.location.kind = "none")
    => (result.tag = "Ok" /\ result.resp.status = 301)

\* C7 as stated: when the watcher shut the socket down while the request
\* was being written or the response head read, send fails with an I/O
\* error of kind TimedOut.
C7_DeadlineIsTimedOut ==
    (pc = "done" /\ firedAt \in {"write", "read"}) => result = IoErr("TimedOut")

\* A phase of send that waits for the peer and returns only when the peer
\* acts or the socket is shut down.
Blocked ==
    \/ pc = "dial"
    \/ pc \in {"tls", "write"} /\ sock = "open"
    \/ pc = "read" /\ sock = "open" /\ headPart # "eof"

\* A watcher that will shut the socket down once it runs.
WatcherArmed == watcher \in {"spawned", "waiting", "dropped"}

\* C8 as stated: once the deadline has passed, whichever phase send is
\* blocked in (connect, handshake, write, head read) has a watcher that
\* forces it to unblock.
C8_DeadlineBoundsEveryPhase ==
    (deadline.some /\ now >= deadline.val /\ Blocked) => WatcherArmed

(***************************************************************************)
(* Properties of the request on the wire                                   *)
(***************************************************************************)
\* The values of the header lines of one name, in wire order.
ValuesOf(lines, name) ==
    LET sel == SelectSeq(lines, LAMBDA l : l.name = name)
    IN  [i \in 1..Len(sel) |-> sel[i].value]

\* C9 as stated: for an Empty body the head on the wire has neither a
\* Content-Length nor a Transfer-Encoding header, whatever the caller
\* supplied, and no body bytes follow.
C9_EmptyBodyNoFramingHeaders ==
    \A i \in 1..Len(wire) :
        BodyKind(body).kind = "Empty" =>
            /\ ValuesOf(wire[i].head, "content-length") = <<>>
            /\ ValuesOf(wire[i].head, "transfer-encoding") = <<>>
            /\ wire[i].body = <<>>

\* C9 (amended): for an Empty body the pipeline adds neither header: the
\* Content-Length and Transfer-Encoding lines on the wire are exactly those
\* the caller supplied (none when the caller supplied none), and no body
\* bytes follow the head.
C9_EmptyBodyAddsNoFramingHeaders ==
    \A i \in 1..Len(wire) :
        BodyKind(body).kind = "Empty" =>
            /\ ValuesOf(wire[i].head, "content-length")
                 = ValuesOf(HeaderLines(headers0), "content-length")
            /\ ValuesOf(wire[i].head, "transfer-encoding")
                 = ValuesOf(HeaderLines(headers0), "transfer-encoding")
            /\ wire[i].body = <<>>

C9_Witness ==
    /\ Len(wire) = 2
    /\ body.type = "Empty"
    /\ ValuesOf(HeaderLines(headers0), "content-length") = << <<"7">> >>
    /\ ValuesOf(wire[2].head, "content-length") = << <<"7">> >>
    /\ ValuesOf(wire[2].head, "transfer-encoding") = <<>>
    /\ wire[2].body = <<>>

\* C10: for a KnownLength(n) body the head on the wire has exactly one
\* Content-Length line, its value is n, whatever Content-Length the caller
\* supplied; the pipeline adds no Transfer-Encoding; the body bytes follow
\* unframed.
C10_KnownLengthOneContentLength ==
    \A i \in 1..Len(wire) :
        BodyKind(body).kind = "KnownLength" =>
            /\ ValuesOf(wire[i].head, "content-length") = << LenValue(BodyKind(body).len) >>
            /\ ValuesOf(wire[i].head, "transfer-encoding")
                 = ValuesOf(HeaderLines(headers0), "transfer-encoding")
            /\ wire[i].body = Concat(body.writes)
            /\ Len(wire[i].body) = BodyKind(body).len

C10_Witness ==
    /\ Len(wire) = 2
    /\ body.type = "Io"
    /\ ValuesOf(HeaderLines(headers0), "content-length") = << <<"7">> >>
    /\ ValuesOf(wire[2].head, "content-length") = << <<"2">> >>
    /\ wire[2].body = <<"x", "y">>

\* The last token of the Transfer-Encoding field as the peer reads it: the
\* lines of one name read as one comma-separated list, in wire order.
LastToken(values) ==
    LET tokens == Concat(values) IN
    IF tokens = <<>> THEN "none" ELSE tokens[Len(tokens)]

\* bytes is a sequence of frames  hex-size CRLF payload CRLF  with non-empty
\* payloads, followed by the terminator 0 CRLF CRLF and nothing else.
RECURSIVE MatchesChunkedGrammar(_)
MatchesChunkedGrammar(bytes) ==
    IF bytes = ChunkedClose THEN TRUE
    ELSE \E n \in 1..Len(bytes) :
           LET f == Hex(n) \o CRLF IN
           /\ Len(bytes) >= Len(f) + n + 2
           /\ SubSeq(bytes, 1, Len(f)) = f
           /\ SubSeq(bytes, Len(f) + n + 1, Len(f) + n + 2) = CRLF
           /\ MatchesChunkedGrammar(SubSeq(bytes, Len(f) + n + 3, Len(bytes)))

\* C11 as stated: for a Chunked body, whatever Transfer-Encoding values the
\* caller supplied, the Transfer-Encoding on the wire has chunked as its last
\* token and the bytes after the head are frames ended by exactly one
\* terminator 0 CRLF CRLF.
C11_ChunkedLastTokenAndFramed ==
    \A i \in 1..Len(wire) :
        BodyKind(body).kind = "Chunked" =>
            /\ LastToken(ValuesOf(wire[i].head, "transfer-encoding")) = "chunked"
            /\ MatchesChunkedGrammar(wire[i].body)

\* C12: on every hop, also one reached by a redirect to another authority,
\* the Host header on the wire is exactly one line whose value is the host
\* of that hop's authority, whatever Host the caller supplied or the
\* previous hop left in the map.
C12_HostIsHopAuthority ==
    \A i \in 1..Len(wire) :
        ValuesOf(wire[i].head, "host") = << <<wire[i].host>> >>

C12_Witness ==
    /\ Len(wire) = 2
    /\ Len(ValuesOf(HeaderLines(headers0), "host")) = 2
    /\ wire[1].host = "a"
    /\ wire[2].host = "b"
    /\ ValuesOf(wire[1].head, "host") = << <<"a">> >>
    /\ ValuesOf(wire[2].head, "host") = << <<"b">> >>

(***************************************************************************)
(* Properties of the chunked codec and of the parse driver                 *)
(***************************************************************************)
\* C13: a byte sequence written through the chunked encoder with write_all,
\* in whatever pieces, and closed, is read back unchanged by the chunked
\* decoder up to a clean end of stream, however the encoded bytes are split
\* across the reader's fills and whatever buffer sizes the caller reads
\* with; the empty sequence is encoded as 0 CRLF CRLF and read back empty.
C13_ChunkedRoundTrip ==
    (cpc # "new" /\ api = "write_all" /\ ~truncated) =>
        /\ (Concat(calls) = <<>> => data = ChunkedClose)
        /\ Len(out) <= Len(Concat(calls))
        /\ out = SubSeq(Concat(calls), 1, Len(out))
        /\ (cpc = "done" => rres = "Eof" /\ out = Concat(calls))

C13_Witness ==
    /\ cpc = "done"
    /\ api = "write_all"
    /\ ~truncated
    /\ plan = [first |-> 1, step |-> 1]
    /\ calls = << <<"0", "CR", "LF", "CR", "LF">>, <<"x", "y">> >>
    /\ rres = "Eof"
    /\ out = <<"0", "CR", "LF", "CR", "LF", "x", "y">>

\* C14 as stated: when the stream ends before the encoded body is complete,
\* the decoder ends with UnexpectedEof, never with a clean end of stream.
C14_TruncatedIsUnexpectedEof ==
    (cpc = "done" /\ api = "write_all" /\ truncated) => rres = "UnexpectedEof"

\* The byte count k of the Complete result the parser gives on the input.
ParsedOf(P, d) == ApplyParser(P, d).parsed

\* C15 as stated: whatever the parser and however the input is split across
\* fills, when parse returns a value the reader has advanced by exactly the
\* k of the parser's Complete((k, v)), and the next byte read is input
\* byte k.
C15_ReaderAdvancedByParsed ==
    (cpc \in {"parsed", "done"} /\ pres.tag = "Ok") =>
        /\ cr.pos = ParsedOf(parser, data)
        /\ (cpc = "done" =>
              out = SubSeq(data, ParsedOf(parser, data) + 1,
                           Min(ParsedOf(parser, data) + 1, Len(data))))

\* A parser that reports Complete as soon as its input holds the bytes it
\* consumes: the chunk-size and line-ending parsers, and a token parser
\* that consumes all it needed to see.
CompletesAtOnce(P) == P.kind = "token" => P.take = P.need

\* C15 (amended): for a parser that reports Complete as soon as its input
\* holds the k bytes it consumes, however the input is split across fills,
\* when parse returns a value the reader has advanced by exactly k bytes and
\* the next byte read is input byte k.
C15_ReaderAdvancedByParsedAtOnce ==
    (cpc \in {"parsed", "done"} /\ pres.tag = "Ok" /\ CompletesAtOnce(parser)) =>
        /\ cr.pos = ParsedOf(parser, data)
        /\ (cpc = "done" =>
              out = SubSeq(data, ParsedOf(parser, data) + 1,
                           Min(ParsedOf(parser, data) + 1, Len(data))))

C15_Witness ==
    /\ cpc = "done"
    /\ pres.tag = "Ok"
    /\ parser = LineEndingParser
    /\ data = <<"CR", "LF", "x">>
    /\ plan = [first |-> 1, step |-> 1]
    /\ cr.pos = 2
    /\ out = <<"x">>

(***************************************************************************)
(* Properties of the dialer                                                *)
(***************************************************************************)
\* The addresses of one family, in the order in which `s` arranges them.
FamilyOf(a, s, fam) == SelectSeq(s, LAMBDA i : a[i] = fam)

\* The two families taken in turn, IPv6 first, until one runs out.
RECURSIVE Interleave(_, _)
Interleave(v6s, v4s) ==
    IF v6s = <<>> THEN v4s
    ELSE IF v4s = <<>> THEN v6s
    ELSE <<Head(v6s), Head(v4s)>> \o Interleave(Tail(v6s), Tail(v4s))

Indices(a) == [i \in 1..Len(a) |-> i]

\* C16: for a resolved list of two or more addresses the launch order is a
\* permutation of the list that keeps the resolver's order inside each
\* family, has the i-th IPv6 address at priority 2i and the i-th IPv4
\* address at priority 2i+1, hence takes the families in turn, IPv6 first;
\* [v6a, v6b, v4a] is launched as v6a, v4a, v6b; the attempts launched so
\* far are the first `launched` addresses of that order.
C16_LaunchOrder ==
    (Len(addrs) >= 2 /\ dpc \notin {"off", "start"}) =>
        /\ Len(order) = Len(addrs)
        /\ \A i \in 1..Len(addrs) : \E k \in 1..Len(order) : order[k] = i
        /\ FamilyOf(addrs, order, "v6") = FamilyOf(addrs, Indices(addrs), "v6")
        /\ FamilyOf(addrs, order, "v4") = FamilyOf(addrs, Indices(addrs), "v4")
        /\ \A k \in 1..Len(order) :
             Prio(addrs, order[k]) =
                 2 * Cardinality({ j \in 1..(k - 1) : addrs[order[j]] = addrs[order[k]] })
                 + (IF addrs[order[k]] = "v6" THEN 0 ELSE 1)
        /\ order = Interleave(FamilyOf(addrs, Indices(addrs), "v6"),
                              FamilyOf(addrs, Indices(addrs), "v4"))
        /\ (addrs = <<"v6", "v6", "v4">> => order = <<1, 3, 2>>)
        /\ \A k \in 1..Len(att) : (att[k] # "idle") <=> (k <= launched)

C16_Witness ==
    /\ addrs = <<"v6", "v6", "v4">>
    /\ order = <<1, 3, 2>>
    /\ launched = 3
    /\ dpc = "drain"

\* C17: connect returns Ok in the very step in which the main thread
\* receives its first successful result, with that attempt's stream; it
\* returns Err only when every address was launched and every attempt
\* failed and was received, and the error is that of the first result
\* received.
C17_DialerOutcome ==
    /\ (dres.tag = "none" => \A n \in 1..Len(recvLog) : ~recvLog[n].ok)
    /\ (dres.tag = "Ok" /\ Len(addrs) >= 2 =>
          /\ recvLog # <<>>
          /\ recvLog[Len(recvLog)] = [k |-> dres.who, ok |-> TRUE]
          /\ \A n \in 1..(Len(recvLog) - 1) : ~recvLog[n].ok
          /\ att[dres.who] = "ok")
    /\ (dres.tag = "Err" /\ Len(addrs) >= 2 =>
          /\ launched = Len(addrs)
          /\ \A k \in 1..Len(att) : att[k] = "err"
          /\ Len(recvLog) = Len(addrs)
          /\ dres.who = recvLog[1].k)
    /\ (dres.tag # "none" /\ Len(addrs) = 1 =>
          /\ dres.who = 1
          /\ att[1] = (IF dres.tag = "Ok" THEN "ok" ELSE "err"))

C17_Witness ==
    /\ dpc = "done"
    /\ Len(addrs) = 3
    /\ dres = [tag |-> "Err", who |-> 2]
    /\ recvLog = << [k |-> 2, ok |-> FALSE], [k |-> 1, ok |-> FALSE], [k |-> 3, ok |-> FALSE] >>

(***************************************************************************)
(* Fail fast, no retry                                                     *)
(***************************************************************************)
\* The steps of one hop, in the order send_with_opts takes them.
HopSteps == <<"loop", "dial", "tls", "write", "read", "redirect">>

StepIndex(p) == CHOOSE i \in 1..Len(HopSteps) : HopSteps[i] = p

\* C18: a failing step ends send at once with its error: the error is set in
\* the step that leaves the hop, nothing is returned besides it, and nothing
\* happens after it; every connection belongs to a hop of its own (the first
\* hop or a followed redirect), and within a hop the call only moves forward,
\* so no hop is dialled or written to twice.
C18_FailFastNoRetry ==
    /\ [][ /\ (result.tag = "none" /\ result'.tag = "Err")
              => (pc \in {"loop", "dial", "tls", "write", "read", "redirect"}
                  /\ pc' = "done" /\ conns' = conns /\ sock' # "open")
           /\ pc = "done"
              => (pc' = "done" /\ result' = result /\ conns' = conns
                  /\ followed' = followed /\ nResp' = nResp)
           /\ (pc # "done" /\ pc' # pc /\ pc' # "done")
              => IF pc' = "loop" THEN pc = "redirect" /\ followed' = followed + 1
                 ELSE StepIndex(pc') > StepIndex(pc)
           /\ conns' # conns => (pc = "dial" /\ pc' # "dial" /\ conns' = conns + 1) ]_vars
    /\ [](conns <= followed + 1)
    /\ []((pc = "done") <=> (result.tag # "none"))

\* A second hop's TLS handshake failed: two connections, one response head
\* read and dropped, and the error returned.
C18_Witness ==
    /\ pc = "done"
    /\ result = Err("Tls")
    /\ followed = 1
    /\ conns = 2
    /\ nResp = 1


(***************************************************************************)
(* Port selection and the URI checks                                       *)
(***************************************************************************)
\* The schemes that have a default port in this build.
DefaultPortSchemes == IF tls THEN {"http", "https"} ELSE {"http"}

\* C19: on every hop past the URI checks the URI has scheme and authority
\* and the port is the explicit one when present, else 80 for http, else 443
\* for https with TLS compiled in; the checks at the top of each hop fail
\* MissingScheme, MissingAuthority and UnsupportedProtocol (a scheme without
\* default port and no explicit port) in this order, and a hop that fails
\* them has no connection of its own.
C19_PortAndUriChecks ==
    /\ [](pc \in {"dial", "tls", "write", "read", "redirect"} =>
            /\ uri.scheme # "none"
            /\ uri.authority # "none"
            /\ port.some
            /\ port.val = IF uri.port.some THEN uri.port.val
                          ELSE IF uri.scheme = "http" THEN 80
                          ELSE 443
            /\ (~uri.port.some /\ uri.scheme # "http") => (uri.scheme = "https" /\ tls))
    /\ [](pc = "loop" => conns = followed)
    /\ [][ pc = "loop" /\ pc' # "loop" =>
             /\ conns' = conns
             /\ IF uri.scheme = "none" THEN result' = Err("MissingScheme")
                ELSE IF uri.authority = "none" THEN result' = Err("MissingAuthority")
                ELSE IF ~uri.port.some /\ uri.scheme \notin DefaultPortSchemes
                     THEN result' = Err("UnsupportedProtocol")
                ELSE pc' = "dial" /\ result' = result ]_vars
    /\ [](result \in {Err("MissingScheme"), Err("MissingAuthority"),
                      Err("UnsupportedProtocol")} => conns = followed)

\* The second hop goes to the explicit port of its Location although the
\* scheme has a default port.
C19_Witness ==
    /\ pc = "dial"
    /\ followed = 1
    /\ uri.scheme = "http"
    /\ uri.port = Some(8080)
    /\ port = Some(8080)


(***************************************************************************)
(* The URI of the next hop                                                 *)
(***************************************************************************)
\* C20: a followed redirect takes scheme and authority (with its port) from
\* an absolute Location and keeps those of the previous URI for a relative
\* one; path and query are those of the Location; after any number of
\* followed redirects the URI has scheme, authority and path.
C20_RedirectUriMerge ==
    /\ [][ followed' = followed + 1 =>
             /\ resp.location.kind \in {"abs", "rel"}
             /\ resp.location.kind = "abs" =>
                  /\ uri'.scheme = resp.location.scheme
                  /\ uri'.authority = resp.location.authority
                  /\ uri'.port = resp.location.port
             /\ resp.location.kind = "rel" =>
                  /\ uri'.scheme = uri.scheme
                  /\ uri'.authority = uri.authority
                  /\ uri'.port = uri.port
             /\ uri'.path = "/q" ]_vars
    /\ [][ followed' # followed => followed' = followed + 1 ]_vars
    /\ [](followed > 0 =>
            uri.scheme # "none" /\ uri.authority # "none" /\ uri.path # "none")

\* A relative Location was followed from ftp://a:8080/p: the second hop
\* keeps scheme, authority and port and has the Location's path.
C20_Witness ==
    /\ followed = 1
    /\ pc = "dial"
    /\ uri = [scheme |-> "ftp", authority |-> "a", port |-> Some(8080), path |-> "/q"]


(***************************************************************************)
(* Connection, User-Agent and the order of the header lines                *)
(***************************************************************************)
\* C21: on every hop the Connection header on the wire is the single line
\* close, whatever the caller supplied; the User-Agent lines are the
\* caller's, unchanged, and the default alone when the caller supplied none.
C21_ConnectionCloseUserAgentKept ==
    \A i \in 1..Len(wire) :
        /\ ValuesOf(wire[i].head, "connection") = << <<"close">> >>
        /\ ValuesOf(wire[i].head, "user-agent")
             = IF ValuesOf(HeaderLines(headers0), "user-agent") = <<>>
               THEN << <<DefUserAgent>> >>
               ELSE ValuesOf(HeaderLines(headers0), "user-agent")

\* The caller supplied Connection: keep-alive and a User-Agent of its own;
\* the second hop carries close and the caller's User-Agent.
C21_Witness ==
    /\ Len(wire) = 2
    /\ ValuesOf(HeaderLines(headers0), "connection") = << <<"keep-alive">> >>
    /\ ValuesOf(HeaderLines(headers0), "user-agent") = << <<"me">> >>
    /\ ValuesOf(wire[2].head, "connection") = << <<"close">> >>
    /\ ValuesOf(wire[2].head, "user-agent") = << <<"me">> >>


\* The names of a sequence of lines, each once, in the order of their first
\* line.
RECURSIVE FirstNames(_)
FirstNames(lines) ==
    IF lines = <<>> THEN <<>>
    ELSE LET front == FirstNames(SubSeq(lines, 1, Len(lines) - 1))
             n == lines[Len(lines)].name
         IN  IF \E j \in 1..Len(front) : front[j] = n THEN front ELSE Append(front, n)

RECURSIVE LinesOfNames(_, _)
LinesOfNames(names, lines) ==
    IF names = <<>> THEN <<>>
    ELSE SelectSeq(lines, LAMBDA l : l.name = Head(names)) \o LinesOfNames(Tail(names), lines)

\* The lines brought together by name: names in the order of their first
\* line, the lines of one name in their own order.
Grouped(lines) == LinesOfNames(FirstNames(lines), lines)

\* The names normalisation and the loop set, in the order they set them.
SetNames ==
    <<"connection", "user-agent">>
    \o (IF flate2 THEN <<"accept-encoding">> ELSE <<>>)
    \o (IF BodyKind(body).kind = "KnownLength" THEN <<"content-length">>
        ELSE IF BodyKind(body).kind = "Chunked" THEN <<"transfer-encoding">>
        ELSE <<>>)
    \o <<"host">>

\* The lines of the names the pipeline never sets a value of.
CallerOnly(lines) == SelectSeq(lines, LAMBDA l : l.name = "x-tag" \/
                                                  (l.name = "user-agent" /\ l.value # <<DefUserAgent>>))

NameLine(n) == [name |-> n, value |-> <<>>]

NameLines(names) == [j \in 1..Len(names) |-> NameLine(names[j])]

\* C22 as stated: on every hop the caller's lines are on the wire in the
\* order the caller appended them, the names the pipeline added follow in
\* the order they were added, and the order is that of the first hop.
C22_WireOrderIsCallOrder ==
    \A i \in 1..Len(wire) :
        /\ CallerOnly(wire[i].head) = CallerOnly(lines0)
        /\ FirstNames(wire[i].head) = FirstNames(lines0 \o NameLines(SetNames))
        /\ FirstNames(wire[i].head) = FirstNames(wire[1].head)

\* C22 (amended): on every hop the names are on the wire in the order of
\* their first insertion (the caller's, then those the pipeline added, a
\* name the caller supplied keeping its place when the pipeline sets its
\* value); the lines of one name stand together at the place of the name,
\* in the order they were appended; the order is that of the first hop.
C22_WireOrderIsMapOrder ==
    \A i \in 1..Len(wire) :
        /\ CallerOnly(wire[i].head) = CallerOnly(Grouped(lines0))
        /\ wire[i].head = Grouped(wire[i].head)
        /\ FirstNames(wire[i].head) = FirstNames(lines0 \o NameLines(SetNames))
        /\ FirstNames(wire[i].head) = FirstNames(wire[1].head)

\* The caller appended X-Tag, User-Agent, X-Tag: both X-Tag lines come
\* before the User-Agent line on the second hop.
C22_Witness ==
    /\ Len(wire) = 2
    /\ Len(lines0) = 3
    /\ lines0[1].name = "x-tag" /\ lines0[2].name = "user-agent" /\ lines0[3].name = "x-tag"
    /\ SubSeq(wire[2].head, 1, 3)
         = << lines0[1], lines0[3], lines0[2] >>


(***************************************************************************)
(* Properties of the deadline watcher                                      *)
(***************************************************************************)
\* The watcher's wait ended in a timeout: it has dropped its receiver and
\* shuts the socket down, or has done so.
WatcherFires == watcher \in {"dropped", "fired"}

\* C23 as stated: a read through Timeout::read fails TimedOut only if the
\* watcher timed out and fires; when the peer closes the connection, a
\* zero-byte read, also a second one after the watcher was cancelled and
\* has exited, is not TimedOut.
C23_TimedOutOnlyIfFired ==
    [][ (pc = "read" /\ result'.tag = "Err" /\ result'.kind = "TimedOut")
          => WatcherFires ]_vars


\* The thread has decided to shut the socket down, or has done so.
ShutdownDecided == thr \in {"shutdown", "rx_dropped", "fired"}

\* C24: shutdown is invoked at most once on a stream; the thread decides for
\* it only when the deadline has elapsed with no cancel signal sent and the
\* handle alive; after a cancel signal or a drop of the handle before the
\* deadline the thread's wait ends in its exit and shutdown is never
\* invoked, however the thread and the caller interleave.
C24_ShutdownOnlyOnExpiry ==
    /\ [](shutdowns <= 1)
    /\ [](shutdowns = 1 <=> thr = "fired")
    /\ [][ (~ShutdownDecided /\ ShutdownDecided')
             => (wclock >= wdeadline /\ queue = 0 /\ tx /\ ~cancelAt.some) ]_vars
    /\ []((cancelAt.some /\ cancelAt.val < wdeadline) => (~ShutdownDecided /\ shutdowns = 0))
    /\ [][ (cancelAt.some /\ cancelAt.val < wdeadline
             /\ thr \in {"recv_timeout", "try_recv"} /\ thr' # thr)
             => thr' = "exited" ]_vars

\* The handle was dropped before the deadline without a signal; the
\* deadline has passed, the thread has exited, nothing was shut down.
C24_Witness ==
    /\ thr = "exited"
    /\ ~tx
    /\ reads = <<>>
    /\ cancelAt.some /\ cancelAt.val < wdeadline
    /\ wclock > wdeadline
    /\ shutdowns = 0


\* C25: a thread that finds the deadline already past when it starts does
\* not wait: it polls the channel once; with a signal pending or the handle
\* dropped it exits without shutdown, else it drops its receiver and shuts
\* the socket down, no step of which depends on the clock.
C25_PastDeadlineShutsDownAtOnce ==
    /\ [][ (thr = "spawned" /\ thr' # thr)
             => IF wdeadline < wclock THEN thr' = "try_recv" /\ arm' = "None"
                ELSE thr' = "recv_timeout" /\ arm' = "Some" ]_vars
    /\ [][ (thr = "try_recv" /\ thr' # thr)
             => IF queue > 0 \/ ~tx THEN thr' = "exited" /\ shutdowns' = 0
                ELSE thr' = "shutdown" ]_vars
    /\ [](arm = "None" =>
            /\ thr \in {"try_recv", "shutdown", "rx_dropped", "fired", "exited"}
            /\ (thr = "try_recv" => ENABLED ThreadTryRecv)
            /\ (thr = "shutdown" => ENABLED ThreadDropRx)
            /\ (thr = "rx_dropped" => ENABLED ThreadShutdown)
            /\ (thr = "exited" => shutdowns = 0))

\* The thread started one tick after the deadline with nothing pending and
\* the handle alive, and has shut the socket down within that tick.
C25_Witness ==
    /\ arm = "None"
    /\ thr = "fired"
    /\ shutdowns = 1
    /\ wclock = wdeadline + 1
    /\ tx
    /\ reads = <<>>


\* C26: with a deadline set, an https hop has its watcher started on the
\* socket by the step that opens it, before the handshake, and the watcher
\* may shut the socket down during the handshake; without a deadline no
\* watcher is ever started and nothing is ever shut down.
C26_WatcherBeforeHandshake ==
    /\ [][ (pc = "dial" /\ pc' = "tls")
             => (uri.scheme = "https"
                 /\ watcher' = IF deadline.some THEN "spawned" ELSE "none") ]_vars
    /\ []((pc = "tls" /\ deadline.some) => watcher # "none")
    /\ [](~deadline.some => (watcher = "none" /\ firedAt = "none" /\ sock # "shutdown"))

\* The watcher shut the socket down while the handshake was under way.
C26_Witness ==
    /\ pc = "tls"
    /\ uri.scheme = "https"
    /\ deadline.some
    /\ firedAt = "tls"
    /\ watcher = "fired"
    /\ sock = "shutdown"


\* C27: the hops are strictly sequential: whenever send is at the top of the
\* loop or in the dialer it holds no open socket and no Timeout handle; a
\* connection is opened only in that state, and the step that follows a
\* redirect releases the stream and the handle of the hop it leaves.
C27_HopsSequential ==
    /\ [](pc \in {"loop", "dial"} =>
            (sock \in {"none", "closed"} /\ watcher = "none" /\ chan = 0))
    /\ [][ conns' # conns =>
             /\ sock \in {"none", "closed"}
             /\ watcher = "none"
             /\ sock' = "open"
             /\ conns' = conns + 1 ]_vars
    /\ [][ followed' # followed =>
             (sock \in {"open", "shutdown"} /\ sock' = "closed" /\ watcher' = "none") ]_vars

\* The second hop is in the dialer; the first hop's stream, which had a
\* watcher, is closed.
C27_Witness ==
    /\ pc = "dial"
    /\ followed = 1
    /\ conns = 1
    /\ deadline.some
    /\ sock = "closed"
    /\ watcher = "none"


\* C28: a followed redirect hands the next hop the remaining timeout minus
\* the time the hop took; while send runs the remaining timeout is the
\* original one minus the time elapsed up to the last redirect and stays
\* strictly positive; a redirect whose hop took at least the remaining
\* timeout fails TooManyRedirects; without a timeout none appears.
C28_TimeoutCarriedOver ==
    /\ [][ (followed' = followed + 1 /\ timeout.some) =>
             /\ now - start < timeout.val
             /\ timeout' = Some(timeout.val - (now - start)) ]_vars
    /\ []((pc # "done" /\ timeout.some) =>
            (opts0.timeout.some /\ timeout.val = opts0.timeout.val - start /\ timeout.val > 0))
    /\ [](timeout.some => timeout.val > 0)
    /\ [](timeout.some <=> opts0.timeout.some)
    /\ [][ (Decides /\ follow_redirects.some /\ follow_redirects.val > 0
             /\ resp.status \in TriggerStatuses
             /\ timeout.some /\ now - start >= timeout.val)
             => (result' = Err("TooManyRedirects") /\ followed' = followed) ]_vars

\* Two redirects were followed under a timeout of two ticks, the first hop
\* took one tick and the second none: one tick is left for the third hop.
C28_Witness ==
    /\ followed = 2
    /\ pc = "dial"
    /\ opts0.timeout = Some(2)
    /\ start = 1
    /\ timeout = Some(1)


(***************************************************************************)
(* The request across hops                                                 *)
(***************************************************************************)
\* The entries or lines of every name but Host.
NonHost(q) == SelectSeq(q, LAMBDA l : l.name # "host")

\* C29: every hop carries the caller's method and version, the header lines
\* of the first hop except Host, and the body bytes of the first hop; once
\* the loop is entered neither the chunked flag nor any header but Host
\* changes, and the method and version never change.
C29_RequestResentUnchanged ==
    /\ [](\A i \in 1..Len(wire) :
            /\ wire[i].line = reqline
            /\ NonHost(wire[i].head) = NonHost(wire[1].head)
            /\ wire[i].body = wire[1].body)
    /\ [][ /\ reqline' = reqline
           /\ wpc = "loop" => (chunked' = chunked /\ NonHost(headers') = NonHost(headers)) ]_vars
    /\ [](wpc = "loop" => chunked = (BodyKind(body).kind = "Chunked"))

\* A POST with an IoBody went to host a and then to host b: the second hop
\* has the method and version of the first and the whole body again.
C29_Witness ==
    /\ Len(wire) = 2
    /\ reqline = [method |-> "POST", version |-> "HTTP/1.0"]
    /\ body.type = "Io"
    /\ wire[1].host = "a"
    /\ wire[2].host = "b"
    /\ wire[2].line = wire[1].line
    /\ wire[1].body = <<"x", "y">>
    /\ wire[2].body = <<"x", "y">>


(***************************************************************************)
(* The state machine of the chunked decoder                                *)
(***************************************************************************)
StateRank(st) == IF st = "Init" THEN 0 ELSE IF st = "Next" THEN 1 ELSE 2

\* The sizes the encoder declared, the terminator's zero included, up to
\* the first zero.
RECURSIVE UpToFirstZero(_)
UpToFirstZero(ns) ==
    IF ns = <<>> THEN <<>>
    ELSE IF Head(ns) = 0 THEN <<0>>
    ELSE <<Head(ns)>> \o UpToFirstZero(Tail(ns))

DeclaredSizes ==
    LET w == EncoderWrites(api, calls)
    IN  UpToFirstZero([j \in 1..Len(w) |-> Len(w[j])] \o <<0>>)

\* C30: the decoder's state only moves forward Init, Next, Done; the sizes
\* it reads are those declared on the wire, and rem stays between zero and
\* the size of the current chunk; the decoder is Done only right after a
\* zero-size chunk and its final CRLF; once Done it stays as it is, a fill
\* returns an empty buffer whatever follows in the stream, a consume of any
\* amount consumes nothing, and nothing more is read out.
C30_DecoderStateMachine ==
    /\ [][ StateRank(cr'.state) >= StateRank(cr.state)
           /\ StateRank(cr'.state) <= StateRank(cr.state) + 2 ]_vars
    /\ [](cpc \in {"sent", "reading", "done"} =>
            /\ Len(sizes) <= Len(DeclaredSizes)
            /\ sizes = SubSeq(DeclaredSizes, 1, Len(sizes))
            /\ cr.rem >= 0
            /\ cr.rem <= (IF sizes = <<>> THEN 0 ELSE sizes[Len(sizes)])
            /\ (cr.state = "Init") => (sizes = <<>> /\ cr.pos = 0))
    /\ [][ cr'.rem > cr.rem => (cr.rem = 0 /\ Len(sizes') = Len(sizes) + 1) ]_vars
    /\ [](cr.state = "Done" =>
            /\ cr.rem = 0
            /\ sizes # <<>> /\ sizes[Len(sizes)] = 0
            /\ cr.pos >= Len(ChunkedClose)
            /\ SubSeq(data, cr.pos - Len(ChunkedClose) + 1, cr.pos) = ChunkedClose
            /\ CrFillBuf(data, plan, cr) = CrOk(<<>>, cr)
            /\ \A amt \in ReadCaps : CrConsume(cr, amt) = cr
            /\ \A cap \in ReadCaps : CrRead(data, plan, cr, cap) = CrOk(<<>>, cr))
    /\ [][ cr.state = "Done" => (cr' = cr /\ out' = out) ]_vars

\* The producer wrote xy and then an empty buffer, which the encoder turned
\* into a terminator: the decoder is Done after it and has left the real
\* terminator in the stream.
C30_Witness ==
    /\ cpc = "done"
    /\ api = "write"
    /\ calls = << <<"x", "y">>, <<>> >>
    /\ ~truncated
    /\ cr.state = "Done"
    /\ sizes = <<2, 0>>
    /\ out = <<"x", "y">>
    /\ cr.pos < Len(data)


(***************************************************************************)
(* The line ending between chunks                                          *)
(***************************************************************************)
\* The first two bytes of the stream, or fewer when it ends before.
NextTwo == SubSeq(data, 1, Min(2, Len(data)))

\* C31: however the stream is split across fills, read_line_ending succeeds
\* iff the next two bytes are CR LF and then has consumed exactly these two
\* bytes; it fails with InvalidLineEnding when the bytes at hand are not a
\* prefix of CR LF, and with UnexpectedEof when the stream ends after no
\* byte or after a lone CR.
C31_LineEnding ==
    (cpc \in {"parsed", "done"} /\ parser = LineEndingParser) =>
        /\ (pres.tag = "Ok") <=> (NextTwo = CRLF)
        /\ (pres.tag = "Ok") => (cr.pos = 2)
        /\ (NextTwo \notin {<<>>, <<"CR">>, CRLF}) =>
                (pres.tag = "Err" /\ pres.err = "InvalidLineEnding")
        /\ (NextTwo \in {<<>>, <<"CR">>}) =>
                (pres.tag = "Err" /\ pres.err = "UnexpectedEof")

\* CR and LF arrive in two fills and a byte follows them: the line ending is
\* read and the next byte of the reader is the one after it.
C31_Witness ==
    /\ cpc = "done"
    /\ parser = LineEndingParser
    /\ data = <<"CR", "LF", "x">>
    /\ plan.first = 1
    /\ pres.tag = "Ok"
    /\ cr.pos = 2
    /\ out = <<"x">>


(***************************************************************************)
(* The bounds of the parse driver                                          *)
(***************************************************************************)
\* C32: the accumulator never holds more than MAX_PARSE_BUF_LEN bytes, and
\* it may hold exactly that many; parse fails with the buffer-limit error
\* exactly at a fill that would take the accumulator over the limit, and
\* the bytes of that fill have not been appended nor consumed; parse fails
\* with UnexpectedEof exactly when the whole stream, within the limit,
\* left the parser Partial.
C32_ParseDriverBounds ==
    (cpc \in {"parsed", "done", "body", "body_end"}) =>
        With(Stream, LAMBDA st :
            /\ pres.acc <= MAX_PARSE_BUF_LEN
            /\ (pres.tag = "Err" /\ pres.err = "BufferLimit") =>
                    /\ pres.acc + Len(FillBuf(st, plan, cr.pos)) > MAX_PARSE_BUF_LEN
                    /\ pres.acc = cr.pos
                    /\ With(SubSeq(st, 1, cr.pos),
                            LAMBDA held : ApplyParser(parser, held).st = "Partial")
            /\ (pres.tag = "Err" /\ pres.err = "UnexpectedEof") <=>
                    /\ ApplyParser(parser, st).st = "Partial"
                    /\ ~(pres.tag = "Err" /\ pres.err = "BufferLimit")
            /\ (pres.tag = "Err" /\ pres.err = "UnexpectedEof") =>
                    (cr.pos = Len(st) /\ pres.acc = Len(st))
            /\ (Len(st) <= MAX_PARSE_BUF_LEN) =>
                    ~(pres.tag = "Err" /\ pres.err = "BufferLimit"))

\* A header line of one byte more than the limit arrives as a fill of
\* MAX_PARSE_BUF_LEN - 1 bytes and two fills of one byte: the accumulator
\* is full after the second fill and the third is refused.
C32_Witness ==
    /\ cpc = "parsed"
    /\ parser = HeadParser
    /\ pad + Len(data) = MAX_PARSE_BUF_LEN + 1
    /\ plan = [first |-> MAX_PARSE_BUF_LEN - 1, step |-> 1]
    /\ pres.tag = "Err"
    /\ pres.err = "BufferLimit"
    /\ pres.acc = MAX_PARSE_BUF_LEN
    /\ cr.pos = MAX_PARSE_BUF_LEN


(***************************************************************************)
(* The staggered launch of the dialer                                      *)
(***************************************************************************)
SuccessReceived == \E i \in 1..Len(recvLog) : recvLog[i].ok

\* C33: attempts are launched one at a time in the sorted order, each from
\* the head of the loop and followed by a wait; the main thread leaves a
\* wait for the next launch only when the delay elapsed with nothing
\* received or when it received a failure, and then the next attempt can be
\* launched at once; within the loop at most one result is received per
\* launch; after a success is received connect has returned and nothing is
\* launched.
C33_StaggeredLaunch ==
    /\ [][ launched' # launched =>
             /\ launched' = launched + 1
             /\ dpc \in {"start", "launch"}
             /\ dpc = "launch" => dpc' = "wait"
             /\ ~SuccessReceived
             /\ \A k \in 1..Len(att) :
                    att'[k] # att[k] => (k = launched' /\ att[k] = "idle" /\ att'[k] = "running")
             /\ \A k \in 1..launched : att[k] # "idle" ]_vars
    /\ [][ (dpc = "wait" /\ dpc' # "wait") =>
             \/ /\ dpc' = "launch"
                /\ rxq = <<>>
                /\ recvLog' = recvLog
             \/ /\ dpc' = "launch"
                /\ rxq # <<>>
                /\ ~Head(rxq).ok
                /\ recvLog' = Append(recvLog, Head(rxq))
             \/ /\ dpc' = "done"
                /\ rxq # <<>>
                /\ Head(rxq).ok
                /\ recvLog' = Append(recvLog, Head(rxq)) ]_vars
    /\ [][ (dpc = "wait" /\ recvLog' # recvLog) => dpc' # "wait" ]_vars
    /\ []((dpc = "launch" /\ launched < Len(order)) => ENABLED Launch)
    /\ []((dpc \in {"launch", "wait"}) => Len(recvLog) <= launched)
    /\ [](dpc = "wait" => (launched >= 1 /\ att[launched] # "idle"))
    /\ [](\A k \in 1..Len(att) : (att[k] # "idle") <=> (k <= launched))
    /\ [](SuccessReceived => dpc = "done")

\* The first attempt failed within the delay, the second was launched at
\* once, and the third after the delay elapsed with nothing received.
C33_Witness ==
    /\ dpc = "wait"
    /\ launched = 3
    /\ Len(recvLog) = 1
    /\ recvLog[1] = [k |-> 1, ok |-> FALSE]
    /\ att[2] = "running"
    /\ att[3] = "running"


(***************************************************************************)
(* The attempts that lose, and the end of connect                          *)
(***************************************************************************)
Attempts == 1..Len(att)

HandedOver == { k \in Attempts : conn[k] = "caller" }

\* C34: at most one stream reaches the caller, exactly one when connect
\* returns Ok, and it stays with the caller; once connect has returned,
\* the stream of every other attempt that succeeded is closed, whether it
\* was queued in the channel or sent afterwards; a running worker can
\* always complete its send, whatever the main thread has done; and every
\* worker that was started exits.
C34_LosersDropped ==
    /\ [](Cardinality(HandedOver) <= 1)
    /\ []((dres.tag = "Ok") <=> (HandedOver # {}))
    /\ [](dres.tag = "Ok" => HandedOver = {dres.who})
    /\ [][ \A k \in Attempts : conn[k] = "caller" => conn'[k] = "caller" ]_vars
    /\ [](dpc = "done" =>
            \A k \in Attempts :
                (att[k] = "ok" /\ k \notin HandedOver) => conn[k] = "closed")
    /\ [](\A k \in Attempts : conn[k] \in {"queued", "closed", "caller"} => att[k] = "ok")
    /\ [](\A k \in Attempts :
            (att[k] = "running" /\ dpc # "single") =>
                (ENABLED WorkerDone(k, TRUE) /\ ENABLED WorkerDone(k, FALSE)))
    /\ [][ \A k \in Attempts : att[k] \in {"ok", "err"} => att'[k] = att[k] ]_vars
    /\ <>[](\A k \in Attempts : att[k] # "running")

\* The first attempt won; the second had its stream queued when connect
\* returned and the third connected afterwards: both streams are closed.
C34_Witness ==
    /\ dpc = "done"
    /\ dres = [tag |-> "Ok", who |-> 1]
    /\ att = <<"ok", "ok", "ok">>
    /\ conn = <<"caller", "closed", "closed">>
    /\ rxq = << [k |-> 2, ok |-> TRUE] >>


\* C37: connect never panics: for every resolved address list, the empty
\* one included, it ends with Ok(stream) or Err(error).
C37_ConnectNeverPanics ==
    dpc = "done" => dres.tag \in {"Ok", "Err"}

\* C38: when every attempt finishes, connect comes to its end under every
\* interleaving, and with a value when an address was resolved; the drain
\* cannot wait forever: each worker sends one result and is then gone, so
\* a drain that finds the channel empty after the last worker ends; once
\* connect has ended it stays so.
C38_ConnectTerminates ==
    /\ <>(dpc = "done")
    /\ [](Len(addrs) >= 1 => <>(dpc = "done" /\ dres.tag \in {"Ok", "Err"}))
    /\ [](dpc = "drain" => <>(dpc = "done"))
    /\ []((dpc = "drain" /\ rxq = <<>> /\ \A k \in Attempts : att[k] # "running")
            => ENABLED DrainEnd)
    /\ [](Len(rxq) + Len(recvLog) <= Cardinality({ k \in Attempts : att[k] \in {"ok", "err"} }))
    /\ [][ dpc = "done" => (dpc' = "done" /\ dres' = dres) ]_vars

\* Three attempts all failed and the drain handed the last failure over:
\* connect returned the first error.
C38_Witness ==
    /\ dpc = "done"
    /\ Len(addrs) = 3
    /\ att = <<"err", "err", "err">>
    /\ Len(recvLog) = 3
    /\ dres.tag = "Err"


(***************************************************************************)
(* The chunked layer of the body reader                                    *)
(***************************************************************************)
\* The tokens of a value: its pieces between commas, without the blanks
\* at their ends, letters compared without case.
IsChunkedToken(v, a, b) ==
    /\ a <= b
    /\ \A i \in a..b : v[i] # ","
    /\ (a = 1 \/ v[a - 1] = ",")
    /\ (b = Len(v) \/ v[b + 1] = ",")
    /\ \E i \in a..b :
         /\ v[i] \in {"chunked", "Chunked", "CHUNKED"}
         /\ \A j \in a..b : j # i => v[j] = " "

ContainsChunked(h) ==
    \E l \in 1..Len(h) : \E a, b \in 1..Len(h[l]) : IsChunkedToken(h[l], a, b)

\* C35: the chunked decoder is layered exactly once when the response's
\* Transfer-Encoding contains the token chunked, and not at all otherwise.
C35_ChunkedLayeredOnce ==
    (cpc = "layered" /\ layers.tag = "Ok") =>
        layers.n = (IF ContainsChunked(te) THEN 1 ELSE 0)


(***************************************************************************)
(* The boundary between head and body                                      *)
(***************************************************************************)
StartsWith(d, hd) == Len(d) >= Len(hd) /\ SubSeq(d, 1, Len(hd)) = hd

HasHead == pad = 0 /\ \E hd \in Heads : StartsWith(data, hd)

HeadLen == Len(CHOOSE hd \in Heads : StartsWith(data, hd))

\* C36: for a response whose head is complete, however its bytes are split
\* across the fills, parse succeeds and leaves the reader right behind the
\* blank line, and the body reader, read to its end, yields the bytes
\* behind the blank line, each once and in order.
C36_HeadBodyBoundary ==
    (parser = HeadParser /\ HasHead /\ cpc # "parse") =>
        /\ pres.tag = "Ok"
        /\ cpc = "parsed" => (cr.pos = HeadLen /\ out = <<>>)
        /\ cpc = "done" => out = SubSeq(data, HeadLen + 1, Min(HeadLen + 1, Len(data)))
        /\ cpc \in {"body", "body_end"} =>
                (cr.pos >= HeadLen /\ out = SubSeq(data, HeadLen + 1, cr.pos))
        /\ cpc = "body_end" => out = SubSeq(data, HeadLen + 1, Len(data))

\* The head arrives in two fills, its last byte together with a body of
\* CR LF: the body reader yields CR LF.
C36_Witness ==
    /\ cpc = "body_end"
    /\ parser = HeadParser
    /\ data = <<"h">> \o CRLF \o CRLF \o CRLF
    /\ plan = [first |-> 4, step |-> 0]
    /\ pres.tag = "Ok"
    /\ out = CRLF


(***************************************************************************)
(* Empty writes on the chunked encoder                                     *)
(***************************************************************************)
\* C39: for any sequence of write calls on the encoder, calls with an empty
\* buffer among them, followed by close, the only terminator of the output
\* is the one close writes, so the decoder is Done only at the end of the
\* output, and it reads back the concatenation of all written buffers.
C39_EmptyWriteRoundTrip ==
    (cpc # "new" /\ api = "write" /\ ~truncated) =>
        /\ cr.state = "Done" => cr.pos = Len(data)
        /\ Len(out) <= Len(Concat(calls))
        /\ out = SubSeq(Concat(calls), 1, Len(out))
        /\ cpc = "done" => (rres = "Eof" /\ out = Concat(calls))

====
